---- MODULE Spec2Model ----
(***************************************************************************)
(* A model of BAG2_TEMPLATES_EC: the MOSTech technology interface          *)
(* (abs_templates_ec/analog_mos/core.py), the AnalogMOSBase / AnalogMOSExt  *)
(* primitive templates (abs_templates_ec/analog_mos/mos.py) and the         *)
(* Transistor / TransistorGD characterization rows                          *)
(* (abs_templates_ec/mos_char.py).                                          *)
(*                                                                         *)
(* MOSTech is a class of classmethods that is used without ever being      *)
(* instantiated (templates call self._tech_cls.<method>), so its own       *)
(* method bodies are executable: tech_cls = "MOSTech" is the class of      *)
(* core.py itself.  tech_cls = "MOSTechImpl" is a technology that          *)
(* overrides the abstract methods; its behaviour is the documented         *)
(* contract of each method.  AnalogBase (analog_core.py) is the base class *)
(* of Transistor and TransistorGD; its methods are modelled from their     *)
(* documented behaviour.                                                   *)
(***************************************************************************)
EXTENDS Integers, Sequences, FiniteSets, TLC

----------------------------------------------------------------------------
(* Bounds of the model *)

\* largest entry of a valid-extension-width list
MaxExtW == 5
\* longest valid-extension-width list
MaxListLen == 3
\* largest extension width a caller requests
MaxReqW == 7
\* largest imposed minimum extension width
MaxMinW == 6
\* largest extension quantization pitch
MaxBlkPitch == 3
\* largest number of dummy fingers on each side of a transistor
MaxFgDum == 1
\* largest number of tracks reserved between ports
MaxTrackSep == 1
\* largest number of drain tracks asked for
MaxNdTracks == 2
\* largest horizontal metal width (TransistorGD)
MaxHmWidth == 2
\* largest source/drain pitch of a technology
MaxSdPitch == 2
\* largest edge block width of a technology
MaxEdgeWidth == 2
\* largest dummy connection pitch of a technology
MaxDumPitch == 2
\* largest entry of a technology constants table
MaxTechConst == 2
\* most technology queries made in a row
MaxCalls == 2

----------------------------------------------------------------------------
(* Values *)

\* Python None and Python exceptions are tagged records, like the values
\* they stand beside.
None == [tag |-> "None"]

Raise(name, what) == [tag |-> "exc", name |-> name, what |-> what]

IsExc(v) == v.tag = "exc"

\* a returned value, beside the exceptions a call may raise instead
Ok(v) == [tag |-> "ok", val |-> v]

----------------------------------------------------------------------------
(* State *)

VARIABLES
    tech_cls,       \* the injected technology class (mos_tech_class)
    tech_widths,    \* the valid-width list the overriding technology returns
    tech_params,    \* the numbers the overriding technology returns
    tech_table,     \* the constants table the overriding technology returns
    ext,            \* one AnalogMOSExt template
    leg,            \* the extension width request being legalized
    tr,             \* one Transistor / TransistorGD template
    row_states,     \* the row assembly states passed through so far
    returned,       \* what the caller of the row's draw_layout gets back
    qlog,           \* the technology queries made so far, with their results
    mos,            \* one AnalogMOSBase template
    keyed,          \* the templates asked for their unique key, with the keys
    sweep,          \* one run of design_tail
    stack,          \* one StackDriver template
    amp,            \* one run of characterize_casc_amp
    design          \* one run of the design sweep test()

techvars == <<tech_cls, tech_widths, tech_params, tech_table>>

extvars == <<ext, leg>>

rowvars == <<tr, row_states, returned>>

scriptvars == <<stack, amp, design>>

compvars == <<qlog, mos, keyed, sweep, stack, amp, design>>

vars == <<tech_cls, tech_widths, tech_params, tech_table, ext, leg, tr,
          row_states, returned, qlog, mos, keyed, sweep, stack, amp, design>>

TechClasses == {"MOSTech", "MOSTechImpl"}

\* no AnalogMOSBase template yet
NoMos ==
    [pc |-> "none", params |-> [mos_type |-> "nch", w |-> 0],
     layout_info |-> None, ext_top_info |-> None, ext_bot_info |-> None,
     sd_yc |-> None, g_conn_y |-> None, d_conn_y |-> None,
     draw_mos_saw |-> None, got |-> None, exc |-> None]

\* no design script running
NoSweep == [pc |-> "none"]

\* no StackDriver template, no characterization and no design sweep
NoStack == [pc |-> "none"]
NoAmp == [pc |-> "none"]
NoDesign == [pc |-> "none"]

NoScripts ==
    /\ stack = NoStack
    /\ amp = NoAmp
    /\ design = NoDesign

\* opaque inputs of the extension calls; they only travel through
LchUnit == 16
ExtTopInfo == <<"top">>
ExtBotInfo == <<"bot">>

----------------------------------------------------------------------------
(* MOSTech: extension widths *)

IsStrictlyIncreasing(L) == \A i \in 1..(Len(L) - 1) : L[i] < L[i + 1]

\* The lists an overriding technology may return: non-empty, strictly
\* increasing, entries >= 0.
WidthLists ==
    {L \in UNION {[1..n -> 0..MaxExtW] : n \in 1..MaxListLen} :
        IsStrictlyIncreasing(L)}

\* The list of the overriding technology for the interface pair at hand.
ImplValidExtensionWidths(lch_unit, top_ext_info, bot_ext_info) == tech_widths

get_valid_extension_widths_unsorted(lch_unit, top_ext_info, bot_ext_info) ==
    IF tech_cls = "MOSTech" THEN <<1, 0>>
    ELSE ImplValidExtensionWidths(lch_unit, top_ext_info, bot_ext_info)

\* MOSTech.get_valid_extension_widths: the class's own body returns [0].
get_valid_extension_widths(lch_unit, top_ext_info, bot_ext_info) ==
    IF tech_cls = "MOSTech" THEN <<0>>
    ELSE ImplValidExtensionWidths(lch_unit, top_ext_info, bot_ext_info)

InList(L, w) == \E i \in 1..Len(L) : L[i] = w

IsValidExtensionWidth_tail_only(L, w) == w >= L[Len(L)]

\* a legal set whose open tail starts two above the last element
IsValidExtensionWidth_late_tail(L, w) == InList(L, w) \/ w >= L[Len(L)] + 2

\* The meaning of the list: "any extension widths greater than or equal to
\* the last element should be valid.  For example, if the returned list is
\* [0, 2, 5], then extension widths 0, 2, 5, 6, 7, ... are valid, while
\* extension widths 1, 3, 4 are not valid."
IsValidExtensionWidth(L, w) == InList(L, w) \/ w >= L[Len(L)]

\* The extension information of the overriding technology: it refuses a
\* width outside the legal set.
ImplExtInfo(lch_unit, w, bot_mtype, top_mtype, bot_thres, top_thres, fg, top_ext_info, bot_ext_info) ==
    IF IsValidExtensionWidth(
           get_valid_extension_widths(lch_unit, top_ext_info, bot_ext_info), w)
    THEN [tag |-> "dict", w |-> w, fg |-> fg,
          bot |-> <<bot_mtype, bot_thres>>, top |-> <<top_mtype, top_thres>>]
    ELSE Raise("IllegalExtensionHeight", w)

\* MOSTech.get_ext_info: the class's own body returns {}.
get_ext_info(lch_unit, w, bot_mtype, top_mtype, bot_thres, top_thres, fg, top_ext_info, bot_ext_info) ==
    IF tech_cls = "MOSTech" THEN [tag |-> "dict"]
    ELSE ImplExtInfo(lch_unit, w, bot_mtype, top_mtype, bot_thres, top_thres,
                     fg, top_ext_info, bot_ext_info)

\* MOSTech.get_analog_unit_fg: abstract with no body in MOSTech itself (it
\* returns None, written 0 here: the value only travels into get_ext_info);
\* an overriding technology returns its unit finger count.
get_analog_unit_fg == IF tech_cls = "MOSTech" THEN 0 ELSE 2

----------------------------------------------------------------------------
(* The extension legalizer of the row composer *)

\* The smallest multiple of blk_pitch that is >= n.
CeilToPitch(n, blk_pitch) == ((n + blk_pitch - 1) \div blk_pitch) * blk_pitch

RECURSIVE SearchExtWidth(_, _, _)
SearchExtWidth(L, w, blk_pitch) ==
    IF IsValidExtensionWidth(L, w) THEN w
    ELSE SearchExtWidth(L, w + blk_pitch, blk_pitch)

\* Start at the imposed minimum, rounded up to the pitch, and step by the
\* pitch until the width is valid.
ChooseExtWidth(L, min_w, blk_pitch) ==
    SearchExtWidth(L, CeilToPitch(min_w, blk_pitch), blk_pitch)

----------------------------------------------------------------------------
(* AnalogMOSExt *)

\* AnalogMOSExt.__init__
NewAnalogMOSExt(w) ==
    [pc |-> "created", w |-> w, fg |-> get_analog_unit_fg,
     layout_info |-> None, drawn |-> None, exc |-> None]

\* a helper that goes on after an exception of get_ext_info
AnalogMOSExt_draw_layout_helper_swallow(self) ==
    LET ext_info == get_ext_info(LchUnit, self.w, "nch", "pch", "lvt", "lvt",
                                 self.fg, ExtTopInfo, ExtBotInfo)
    IN  [self EXCEPT !.pc = "drawn", !.layout_info = ext_info,
                     !.drawn = ext_info]

\* a helper that hands fg and w to get_ext_info in each other's place
AnalogMOSExt_draw_layout_helper_swapped(self) ==
    LET ext_info == get_ext_info(LchUnit, self.fg, "nch", "pch", "lvt", "lvt",
                                 self.w, ExtTopInfo, ExtBotInfo)
    IN  IF IsExc(ext_info)
        THEN [self EXCEPT !.pc = "raised", !.exc = ext_info]
        ELSE [self EXCEPT !.pc = "drawn", !.layout_info = ext_info,
                          !.drawn = ext_info]

\* AnalogMOSExt._draw_layout_helper: an exception of get_ext_info leaves
\* the method before _layout_info is assigned and before draw_mos.
AnalogMOSExt_draw_layout_helper(self) ==
    LET ext_info == get_ext_info(LchUnit, self.w, "nch", "pch", "lvt", "lvt",
                                 self.fg, ExtTopInfo, ExtBotInfo)
    IN  IF IsExc(ext_info)
        THEN [self EXCEPT !.pc = "raised", !.exc = ext_info]
        ELSE [self EXCEPT !.pc = "drawn", !.layout_info = ext_info,
                          !.drawn = ext_info]


----------------------------------------------------------------------------
(* MOSTech: the numbers of a technology *)

TechParamSets ==
    [sd_pitch : 1..MaxSdPitch, edge_width : 1..MaxEdgeWidth,
     dum_conn_pitch : 1..MaxDumPitch]

\* the numbers of MOSTech itself are never read: its methods return {}
NoTechParams == [sd_pitch |-> 1, edge_width |-> 1, dum_conn_pitch |-> 1]

\* the entries get_mos_tech_constants must have
TechConstNames == {"sd_pitch", "mos_conn_w", "dum_conn_w", "num_sd_per_track"}

\* a Python dict of numbers: the entries of g
Dict(g) == [n \in DOMAIN g \cup {"tag"} |-> IF n = "tag" THEN "dict" ELSE g[n]]

\* the tables of a technology: complete ones, and ones that lack entries
TechTables ==
    UNION {{Dict(g) : g \in [S -> 1..MaxTechConst]} : S \in SUBSET TechConstNames}

NoTechTable == [tag |-> "dict"]

\* the table of the technology the rows are drawn in
RowTechTable(params) ==
    [tag |-> "dict", sd_pitch |-> params.sd_pitch, mos_conn_w |-> 1,
     dum_conn_w |-> 1, num_sd_per_track |-> 1]

\* MOSTech.get_mos_tech_constants: the class's own body returns {}.
get_mos_tech_constants(lch_unit) ==
    IF tech_cls = "MOSTech" THEN [tag |-> "dict"]
    ELSE tech_table

\* MOSTech.get_sd_pitch: mos_constants['sd_pitch']
get_sd_pitch(lch_unit) ==
    LET mos_constants == get_mos_tech_constants(lch_unit)
    IN  IF "sd_pitch" \in DOMAIN mos_constants
        THEN Ok(mos_constants.sd_pitch)
        ELSE Raise("KeyError", "sd_pitch")

\* MOSTech.get_num_fingers_per_sd: mos_constants['num_sd_per_track']
get_num_fingers_per_sd(lch_unit) ==
    LET mos_constants == get_mos_tech_constants(lch_unit)
    IN  IF "num_sd_per_track" \in DOMAIN mos_constants
        THEN Ok(mos_constants.num_sd_per_track)
        ELSE Raise("KeyError", "num_sd_per_track")

get_dum_conn_track_info_width_first(lch_unit) ==
    LET mos_constants == get_mos_tech_constants(lch_unit)
    IN  IF TechConstNames \subseteq DOMAIN mos_constants
        THEN Ok(<<mos_constants.dum_conn_w,
                  mos_constants.sd_pitch * mos_constants.num_sd_per_track
                      - mos_constants.dum_conn_w>>)
        ELSE Raise("KeyError", "dum_conn_w")

\* MOSTech.get_dum_conn_track_info: the entries are read in the order
\* sd_pitch, dum_conn_w, num_sd_per_track; the first that is missing raises.
get_dum_conn_track_info(lch_unit) ==
    LET mos_constants == get_mos_tech_constants(lch_unit)
    IN  IF "sd_pitch" \notin DOMAIN mos_constants
        THEN Raise("KeyError", "sd_pitch")
        ELSE IF "dum_conn_w" \notin DOMAIN mos_constants
        THEN Raise("KeyError", "dum_conn_w")
        ELSE IF "num_sd_per_track" \notin DOMAIN mos_constants
        THEN Raise("KeyError", "num_sd_per_track")
        ELSE Ok(<<mos_constants.sd_pitch * mos_constants.num_sd_per_track
                      - mos_constants.dum_conn_w,
                  mos_constants.dum_conn_w>>)

\* MOSTech.get_mos_conn_track_info: as above, with mos_conn_w.
get_mos_conn_track_info(lch_unit) ==
    LET mos_constants == get_mos_tech_constants(lch_unit)
    IN  IF "sd_pitch" \notin DOMAIN mos_constants
        THEN Raise("KeyError", "sd_pitch")
        ELSE IF "mos_conn_w" \notin DOMAIN mos_constants
        THEN Raise("KeyError", "mos_conn_w")
        ELSE IF "num_sd_per_track" \notin DOMAIN mos_constants
        THEN Raise("KeyError", "num_sd_per_track")
        ELSE Ok(<<mos_constants.sd_pitch * mos_constants.num_sd_per_track
                      - mos_constants.mos_conn_w,
                  mos_constants.mos_conn_w>>)

\* the names a caller asks get_tech_constant for
TechConstantQueries == TechConstNames \cup {"mos_pitch"}

\* MOSTech.get_tech_constant: the class's own body returns 0 whatever the
\* name.  An overriding technology looks the name up in its table and
\* fails when it is not there.
get_tech_constant(name) ==
    IF tech_cls = "MOSTech" THEN Ok(0)
    ELSE IF name \in DOMAIN tech_table THEN Ok(tech_table[name])
    ELSE Raise("UnknownTechnologyParameter", name)

\* the routing layers a row can have on top, and the pitch of their tracks
\* in resolution units
GridLayers == {4, 5}

TrackPitch(grid, layer) == layer - 3

\* the top layer of the characterization rows
RowTopLayer == 4

\* The edge block of an overriding technology: the technology's edge, the
\* guard ring fingers, the clearance an abutting neighbour needs, made a
\* multiple of the top layer's track pitch.
ImplEdgeWidth(grid, lch_unit, guard_ring_nf, top_layer, is_end) ==
    CeilToPitch(tech_params.edge_width + guard_ring_nf * tech_params.sd_pitch
                    + (IF is_end THEN 0 ELSE 1),
                TrackPitch(grid, top_layer))

\* MOSTech.get_edge_info: the class's own body returns {}.
get_edge_info(grid, lch_unit, guard_ring_nf, top_layer, is_end) ==
    IF tech_cls = "MOSTech" THEN [tag |-> "dict"]
    ELSE [tag |-> "dict",
          edge_width |-> ImplEdgeWidth(grid, lch_unit, guard_ring_nf,
                                       top_layer, is_end)]

get_left_sd_xc_as_end(grid, lch_unit, guard_ring_nf, top_layer, is_end) ==
    LET edge_info == get_edge_info(grid, lch_unit, guard_ring_nf, top_layer, TRUE)
    IN  IF "edge_width" \in DOMAIN edge_info
        THEN Ok(edge_info.edge_width)
        ELSE Raise("KeyError", "edge_width")

\* MOSTech.get_left_sd_xc: edge_info['edge_width']
get_left_sd_xc(grid, lch_unit, guard_ring_nf, top_layer, is_end) ==
    LET edge_info == get_edge_info(grid, lch_unit, guard_ring_nf, top_layer, is_end)
    IN  IF "edge_width" \in DOMAIN edge_info
        THEN Ok(edge_info.edge_width)
        ELSE Raise("KeyError", "edge_width")

\* The block of an overriding technology, with the entries get_mos_info
\* must have.  The gate wire lies towards the substrate of the row (below
\* the drain/source wire in an nch row, above it in a pch row), gap units
\* away from it.
ImplMosInfo(lch_unit, w, mos_type, threshold, fg, gap) ==
    IF "sd_pitch" \notin DOMAIN tech_table
    THEN Raise("UnknownTechnologyParameter", "sd_pitch")
    ELSE IF "mos_conn_w" \notin DOMAIN tech_table
    THEN Raise("UnknownTechnologyParameter", "mos_conn_w")
    ELSE LET g_h == tech_table.mos_conn_w
         IN  [tag |-> "dict",
              layout_info |-> <<"mos", lch_unit, w, mos_type, threshold, fg,
                                fg * tech_table.sd_pitch>>,
              ext_top_info |-> <<mos_type, threshold, "top">>,
              ext_bot_info |-> <<mos_type, threshold, "bot">>,
              sd_yc |-> IF mos_type = "nch" THEN g_h + gap + w \div 2
                        ELSE w \div 2,
              g_conn_y |-> IF mos_type = "nch" THEN <<0, g_h>>
                           ELSE <<w + gap, w + gap + g_h>>,
              d_conn_y |-> IF mos_type = "nch"
                           THEN <<g_h + gap, g_h + gap + w>>
                           ELSE <<0, w>>]

get_mos_info_counting(lch_unit, w, mos_type, threshold, fg) ==
    IF tech_cls = "MOSTech" THEN [tag |-> "dict", calls |-> Len(qlog)]
    ELSE ImplMosInfo(lch_unit, w, mos_type, threshold, fg, 1 + Len(qlog))

\* MOSTech.get_mos_info: the class's own body returns {}.
get_mos_info(lch_unit, w, mos_type, threshold, fg) ==
    IF tech_cls = "MOSTech" THEN [tag |-> "dict"]
    ELSE ImplMosInfo(lch_unit, w, mos_type, threshold, fg, 1)

\* MOSTech.get_dum_conn_pitch: the class's own body returns 1; a
\* technology that can only draw dummy connections on every other track
\* returns 2.
get_dum_conn_pitch ==
    IF tech_cls = "MOSTech" THEN 1 ELSE tech_params.dum_conn_pitch

----------------------------------------------------------------------------
(* Transistor and TransistorGD: parameters and the arguments of draw_base *)

FgValues == {2, 4}

MosTypes == {"nch", "pch"}

\* TransistorGD.get_default_param_values: hm_width = 1, hm_cur_width = 1;
\* Transistor has neither parameter.
TransistorParams ==
    [mos_type : MosTypes, fg : FgValues, fg_dum : 0..MaxFgDum,
     num_track_sep : 0..MaxTrackSep, nd_tracks : 1..MaxNdTracks,
     draw_other : BOOLEAN, global_gnd : BOOLEAN,
     hm_width : {1}, hm_cur_width : {1}]

TransistorGDParams ==
    [mos_type : MosTypes, fg : FgValues, fg_dum : 0..MaxFgDum,
     num_track_sep : 0..MaxTrackSep, nd_tracks : 1..MaxNdTracks,
     draw_other : BOOLEAN, global_gnd : BOOLEAN,
     hm_width : 1..MaxHmWidth, hm_cur_width : 1..MaxHmWidth]

Max(a, b) == IF a >= b THEN a ELSE b

TransistorFgTot_one_side(p) == p.fg + p.fg_dum

\* fg_tot = fg + 2 * fg_dum
TransistorFgTot(p) == p.fg + 2 * p.fg_dum

\* Transistor.draw_layout: num_gate_tr = 2 + num_track_sep and the four
\* track lists handed to draw_base.
TransistorBaseArgs(p) ==
    LET num_gate_tr == 2 + p.num_track_sep
        n_row == p.mos_type = "nch" \/ p.draw_other
        p_row == p.mos_type = "pch" \/ p.draw_other
    IN  [fg_tot |-> TransistorFgTot(p),
         num_track_sep |-> p.num_track_sep,
         ng_tracks |-> IF n_row THEN <<num_gate_tr>> ELSE <<>>,
         nds_tracks |-> IF n_row
                        THEN <<IF p.mos_type = "nch" THEN p.nd_tracks ELSE 1>>
                        ELSE <<>>,
         pg_tracks |-> IF p_row THEN <<num_gate_tr>> ELSE <<>>,
         pds_tracks |-> IF p_row
                        THEN <<IF p.mos_type = "pch" THEN p.nd_tracks ELSE 1>>
                        ELSE <<>>]

\* TransistorGD.draw_layout: nd_tracks = max(nd_tracks, hm_cur_width); the
\* gate rows get hm_width tracks, the other row hm_cur_width drain tracks.
TransistorGDBaseArgs(p) ==
    LET nd_tracks == Max(p.nd_tracks, p.hm_cur_width)
        n_row == p.mos_type = "nch" \/ p.draw_other
        p_row == p.mos_type = "pch" \/ p.draw_other
    IN  [fg_tot |-> TransistorFgTot(p),
         num_track_sep |-> p.num_track_sep,
         ng_tracks |-> IF n_row THEN <<p.hm_width>> ELSE <<>>,
         nds_tracks |-> IF n_row
                        THEN <<IF p.mos_type = "nch" THEN nd_tracks
                               ELSE p.hm_cur_width>>
                        ELSE <<>>,
         pg_tracks |-> IF p_row THEN <<p.hm_width>> ELSE <<>>,
         pds_tracks |-> IF p_row
                        THEN <<IF p.mos_type = "pch" THEN nd_tracks
                               ELSE p.hm_cur_width>>
                        ELSE <<>>]

BaseArgs(self) ==
    IF self.cls = "Transistor" THEN TransistorBaseArgs(self.params)
    ELSE TransistorGDBaseArgs(self.params)

NoBaseArgs ==
    [fg_tot |-> 0, num_track_sep |-> 0, ng_tracks |-> <<>>,
     nds_tracks |-> <<>>, pg_tracks |-> <<>>, pds_tracks |-> <<>>]

----------------------------------------------------------------------------
(* Track identifiers.  A track index is kept in half tracks (htr = 2 * *)
(* index), because TransistorGD asks for gate track (hm_width - 1) / 2.  *)

NoTid == [type |-> "none", htr |-> 0, width |-> 0, pos |-> 0]

SubTid == [type |-> "sub", htr |-> 0, width |-> 1, pos |-> 0]

\* AnalogBase.make_track_id: the tracks of one row; the gate tracks and the
\* drain/source tracks of a row occupy two ranges that do not overlap (the
\* gate tracks lie towards the substrate of the row: below the drain/source
\* tracks in an nch row, above them in a pch row).
make_track_id(base, mos_type, row_idx, tr_type, htr, width) ==
    LET ng == IF mos_type = "nch" THEN base.ng_tracks[row_idx + 1]
              ELSE base.pg_tracks[row_idx + 1]
        nds == IF mos_type = "nch" THEN base.nds_tracks[row_idx + 1]
               ELSE base.pds_tracks[row_idx + 1]
        pos == IF mos_type = "nch"
               THEN (IF tr_type = "g" THEN htr ELSE 2 * ng + htr)
               ELSE (IF tr_type = "g" THEN 2 * nds + htr ELSE htr)
    IN  [type |-> tr_type, htr |-> htr, width |-> width, pos |-> pos]

TransistorGateTrack_lowest(p) == 0

\* Transistor: make_track_id(mos_type, 0, 'g', num_gate_tr - 1)
TransistorGateTrack(p) == 2 * ((2 + p.num_track_sep) - 1)

\* Transistor: make_track_id(mos_type, 0, 'ds', nd_tracks // 2)
TransistorDrainTrack(p) == 2 * (p.nd_tracks \div 2)

\* Transistor: make_track_id(mos_type, 0, 'g', 0)
TransistorSourceTrack(p) == 0

\* TransistorGD: make_track_id(mos_type, 0, 'g', (hm_width - 1) / 2,
\* width=hm_width)
TransistorGDGateTrack(p) == p.hm_width - 1

\* TransistorGD: make_track_id(mos_type, 0, 'ds', nd_tracks // 2,
\* width=hm_cur_width), nd_tracks being max(nd_tracks, hm_cur_width)
TransistorGDDrainTrack(p) == 2 * (Max(p.nd_tracks, p.hm_cur_width) \div 2)

\* a draw_layout that routes the source down whatever the device type
Transistor_sdir_ddir_source_down(mos_type) == <<0, 2>>

\* Transistor.draw_layout: if mos_type == 'pch': sdir, ddir = 2, 0
\* else: sdir, ddir = 0, 2
Transistor_sdir_ddir(mos_type) ==
    IF mos_type = "pch" THEN <<2, 0>> ELSE <<0, 2>>

\* TransistorGD.draw_layout: the same statement
TransistorGD_sdir_ddir(mos_type) ==
    IF mos_type = "pch" THEN <<2, 0>> ELSE <<0, 2>>

\* TransistorGD.draw_layout: the substrate the source is connected to,
\* connect_to_substrate('ntap', ...) for 'pch' and 'ptap' otherwise
TransistorGD_source_substrate(mos_type) ==
    IF mos_type = "pch" THEN "ntap" ELSE "ptap"

\* The rows of draw_base from bottom to top: the ptap row, the nmos rows,
\* the pmos rows, the ntap row.  The direction flag (0 down, 2 up) that
\* leads to a substrate row.
SubstrateDir(sub_type) == IF sub_type = "ptap" THEN 0 ELSE 2

----------------------------------------------------------------------------
(* The statements of draw_layout, in program order *)

TransistorStatements_dummy_first ==
    <<"draw_base", "draw_mos_conn", "fill_dummy", "connect_g", "connect_d",
      "connect_s", "add_pin_body", "global_gnd">>

\* Transistor.draw_layout
TransistorStatements ==
    <<"draw_base", "draw_mos_conn", "connect_g", "connect_d", "connect_s",
      "fill_dummy", "add_pin_body", "global_gnd">>

\* TransistorGD.draw_layout
TransistorGDStatements ==
    <<"draw_base", "draw_mos_conn", "connect_g", "connect_d",
      "connect_to_substrate", "fill_dummy", "add_pin_body", "global_gnd">>

Statements(self) ==
    IF self.cls = "Transistor" THEN TransistorStatements
    ELSE TransistorGDStatements

\* the statement draw_layout is at
CurStmt(self) == Statements(self)[self.ip]

\* the calls into AnalogBase in which an error can arise
RaisingCalls ==
    {"draw_base", "draw_mos_conn", "connect_g", "connect_d", "connect_s",
     "connect_to_substrate", "fill_dummy"}

Running_after_raise(self) == self.pc \in {"run", "raised"}

\* draw_layout has no handler: it runs until it returns or an exception
\* leaves it.
Running(self) == self.pc = "run"

NoPins == [g |-> NoTid, d |-> NoTid, s |-> NoTid, b |-> NoTid]

\* the template after __init__
NewRow(cls, p) ==
    [cls |-> cls, params |-> p, pc |-> "run", ip |-> 1, sub |-> 0,
     base |-> NoBaseArgs, ext_w |-> 0, sd_xc |-> 0, width |-> 0,
     ports |-> FALSE, sub_ports |-> FALSE, pins |-> NoPins,
     dum_tracks |-> {}, sub_wires |-> FALSE, n_ptap |-> 0,
     calls |-> <<>>, exc |-> None, dirs |-> None]

NoRow ==
    [cls |-> "none", params |-> [mos_type |-> "nch"], pc |-> "none", ip |-> 1,
     sub |-> 0, base |-> NoBaseArgs, ext_w |-> 0, sd_xc |-> 0, width |-> 0,
     ports |-> FALSE, sub_ports |-> FALSE, pins |-> NoPins,
     dum_tracks |-> {}, sub_wires |-> FALSE, n_ptap |-> 0,
     calls |-> <<>>, exc |-> None, dirs |-> None]

Fail_no_cause(self, exc) == [self EXCEPT !.pc = "raised"]

\* an exception leaves draw_layout
Fail(self, exc) == [self EXCEPT !.pc = "raised", !.exc = exc]

\* the next statement
Advance(self) == [self EXCEPT !.ip = @ + 1, !.sub = 0]

\* a call into AnalogBase is entered
Enter(self, call) == [self EXCEPT !.calls = Append(@, call)]

----------------------------------------------------------------------------
(* The states of row assembly *)

RowOrder ==
    <<"Configuring", "BlocksBuilt", "ExtensionsLegalized", "EdgesComposed",
      "TracksResolved", "Finalized">>

\* The state a row is in: draw_base passes through the block, extension
\* and edge stages; the connections are resolved when fill_dummy, the last
\* of them, has returned.
RowState(self) ==
    IF self.pc = "raised" THEN "Failed"
    ELSE IF self.pc = "done" THEN "Finalized"
    ELSE IF self.sub_wires THEN "TracksResolved"
    ELSE IF self.ip > 1 THEN "EdgesComposed"
    ELSE IF self.sub = 2 THEN "ExtensionsLegalized"
    ELSE IF self.sub = 1 THEN "BlocksBuilt"
    ELSE "Configuring"

\* the history of states, one entry for each change of state
Passed(hist, self) ==
    IF hist[Len(hist)] = RowState(self) THEN hist
    ELSE Append(hist, RowState(self))

\* the finished row, as the caller of draw_layout gets it
RowLayout(self) ==
    [tag |-> "RowLayout", fg_tot |-> self.base.fg_tot, width |-> self.width,
     sd_xc |-> self.sd_xc, pins |-> self.pins, dum_tracks |-> self.dum_tracks]

\* what follows every step of draw_layout
Step(new) ==
    /\ tr' = new
    /\ row_states' = Passed(row_states, new)
    /\ returned' = IF new.pc = "done" THEN RowLayout(new) ELSE returned
    /\ UNCHANGED <<techvars, extvars, compvars>>

----------------------------------------------------------------------------
(* The extension templates: requests, legalization, drawing *)

NoExt == [pc |-> "none", w |-> 0, fg |-> 0,
          layout_info |-> None, drawn |-> None, exc |-> None]

NoLeg == [tag |-> "None"]

InitExt ==
    /\ tech_cls \in TechClasses
    /\ tech_widths \in (IF tech_cls = "MOSTech" THEN {<<0>>} ELSE WidthLists)
    /\ tech_params = NoTechParams
    /\ tech_table = NoTechTable
    /\ qlog = <<>>
    /\ mos = NoMos
    /\ keyed = <<>>
    /\ sweep = NoSweep
    /\ ext = NoExt
    /\ leg = NoLeg
    /\ tr = NoRow
    /\ row_states = <<>>
    /\ returned = None
    /\ NoScripts

\* A caller asks for an extension of a width of its own choice.
RequestExt ==
    /\ ext.pc = "none"
    /\ \E w \in 0..MaxReqW : ext' = NewAnalogMOSExt(w)
    /\ UNCHANGED <<techvars, leg, rowvars, compvars>>

\* The row composer legalizes the gap between two rows and asks for the
\* extension of the chosen width.
LegalizeExt ==
    /\ ext.pc = "none"
    /\ \E min_w \in 0..MaxMinW, blk_pitch \in 1..MaxBlkPitch :
         LET L == get_valid_extension_widths(LchUnit, ExtTopInfo, ExtBotInfo)
             w == ChooseExtWidth(L, min_w, blk_pitch)
         IN  /\ leg' = [tag |-> "leg", widths |-> L, min_w |-> min_w,
                        blk_pitch |-> blk_pitch, w |-> w]
             /\ ext' = NewAnalogMOSExt(w)
    /\ UNCHANGED <<techvars, rowvars, compvars>>

\* AnalogMOSExt.draw_layout
ExtDrawLayout ==
    /\ ext.pc = "created"
    /\ ext' = AnalogMOSExt_draw_layout_helper(ext)
    /\ UNCHANGED <<techvars, leg, rowvars, compvars>>

NextExt == RequestExt \/ LegalizeExt \/ ExtDrawLayout

SpecExt == InitExt /\ [][NextExt]_vars

----------------------------------------------------------------------------
(* AnalogBase: the row composer behind draw_base and fill_dummy *)

RowWidth_no_edges(edge_width, fg_tot, sd_pitch) == fg_tot * sd_pitch

\* The row: an edge block, fg_tot fingers one source/drain pitch apart,
\* an edge block.
RowWidth(edge_width, fg_tot, sd_pitch) ==
    edge_width + fg_tot * sd_pitch + edge_width

\* The junctions at which the dummies of a row are connected: the fg_dum
\* fingers on each side, and the whole other row when draw_other is set.
DumTrackRequests(p) ==
    LET fg_tot == TransistorFgTot(p)
    IN  (IF p.fg_dum > 0
         THEN (0..p.fg_dum) \cup ((fg_tot - p.fg_dum)..fg_tot) ELSE {})
        \cup (IF p.draw_other THEN 0..fg_tot ELSE {})

ResolveDumTrack_down(idx, pitch) == (idx \div pitch) * pitch

\* A dummy connection goes on the first track at or after the one asked
\* for that the dummy connection pitch allows.
ResolveDumTrack(idx, pitch) == ((idx + pitch - 1) \div pitch) * pitch

\* the exception a failing call into the row composer raises
ErrorOf(self) ==
    LET stmt == CurStmt(self)
        name == IF stmt = "draw_base"
                THEN (IF self.sub = 0 THEN "UnknownTechnologyParameter"
                      ELSE "RowAssemblyFailed")
                ELSE "NoLegalTrack"
    IN  Raise(name, <<stmt, self.params.mos_type, 0>>)

\* the call the statement at hand makes, entered once
Entered(self) ==
    IF CurStmt(self) = "draw_base" /\ self.sub > 0 THEN self
    ELSE Enter(self, CurStmt(self))

----------------------------------------------------------------------------
(* draw_layout, statement by statement *)

\* draw_base (1): the block of every row; the primitive template reads
\* mos_info['layout_info'] first.
DrawBaseBlocks ==
    /\ Running(tr) /\ CurStmt(tr) = "draw_base" /\ tr.sub = 0
    /\ LET args == BaseArgs(tr)
           mos_info == get_mos_info(LchUnit, 4, tr.params.mos_type, "lvt",
                                    args.fg_tot)
       IN  Step(IF IsExc(mos_info) THEN Fail(Entered(tr), mos_info)
                ELSE IF "layout_info" \in DOMAIN mos_info
                THEN [Entered(tr) EXCEPT !.sub = 1, !.base = args]
                ELSE Fail(Entered(tr), Raise("KeyError", "layout_info")))

\* draw_base (2), (3): the extension between the substrate row and the
\* device row, of the smallest valid width.
DrawBaseExt ==
    /\ Running(tr) /\ CurStmt(tr) = "draw_base" /\ tr.sub = 1
    /\ LET L == get_valid_extension_widths(LchUnit, ExtTopInfo, ExtBotInfo)
           w == ChooseExtWidth(L, 0, 1)
           ext_info == get_ext_info(LchUnit, w, "ptap", tr.params.mos_type,
                                    "lvt", "lvt", tr.base.fg_tot,
                                    ExtTopInfo, ExtBotInfo)
       IN  Step(IF IsExc(ext_info) THEN Fail(tr, ext_info)
                ELSE [tr EXCEPT !.sub = 2, !.ext_w = w])

\* draw_base (4): the edges, and the size of the row.
DrawBaseEdges ==
    /\ Running(tr) /\ CurStmt(tr) = "draw_base" /\ tr.sub = 2
    /\ LET sd_xc == get_left_sd_xc("grid", LchUnit, 0, RowTopLayer, TRUE)
           sd_pitch == get_sd_pitch(LchUnit)
       IN  Step(IF IsExc(sd_xc) THEN Fail(tr, sd_xc)
                ELSE IF IsExc(sd_pitch) THEN Fail(tr, sd_pitch)
                ELSE Advance([tr EXCEPT
                        !.sd_xc = sd_xc.val,
                        !.width = RowWidth(sd_xc.val, tr.base.fg_tot,
                                           sd_pitch.val)]))

\* mos_ports = self.draw_mos_conn(mos_type, 0, fg_dum, fg, sdir, ddir, ...)
DrawMosConn ==
    /\ Running(tr) /\ CurStmt(tr) = "draw_mos_conn"
    /\ LET dirs == IF tr.cls = "Transistor"
                   THEN Transistor_sdir_ddir(tr.params.mos_type)
                   ELSE TransistorGD_sdir_ddir(tr.params.mos_type)
       IN  Step(Advance([Entered(tr) EXCEPT !.ports = TRUE,
                                            !.dirs = Ok(dirs)]))

\* the gate: make_track_id, connect_to_tracks(mos_ports['g']), add_pin('g')
ConnectGate ==
    /\ Running(tr) /\ CurStmt(tr) = "connect_g"
    /\ LET p == tr.params
           tid == IF tr.cls = "Transistor"
                  THEN make_track_id(tr.base, p.mos_type, 0, "g",
                                     TransistorGateTrack(p), 1)
                  ELSE make_track_id(tr.base, p.mos_type, 0, "g",
                                     TransistorGDGateTrack(p), p.hm_width)
       IN  Step(Advance([Entered(tr) EXCEPT !.pins.g = tid]))

\* the drain: make_track_id, connect_to_tracks(mos_ports['d']), add_pin('d')
ConnectDrain ==
    /\ Running(tr) /\ CurStmt(tr) = "connect_d"
    /\ LET p == tr.params
           tid == IF tr.cls = "Transistor"
                  THEN make_track_id(tr.base, p.mos_type, 0, "ds",
                                     TransistorDrainTrack(p), 1)
                  ELSE make_track_id(tr.base, p.mos_type, 0, "ds",
                                     TransistorGDDrainTrack(p), p.hm_cur_width)
       IN  Step(Advance([Entered(tr) EXCEPT !.pins.d = tid]))

\* Transistor, the source: make_track_id(mos_type, 0, 'g', 0),
\* connect_to_tracks(mos_ports['s']), add_pin('s')
ConnectSource ==
    /\ Running(tr) /\ CurStmt(tr) = "connect_s"
    /\ LET p == tr.params
           tid == make_track_id(tr.base, p.mos_type, 0, "g",
                                TransistorSourceTrack(p), 1)
       IN  Step(Advance([Entered(tr) EXCEPT !.pins.s = tid]))

\* TransistorGD, the source: connect_to_substrate('ntap' | 'ptap',
\* mos_ports['s'])
ConnectToSubstrate ==
    /\ Running(tr) /\ CurStmt(tr) = "connect_to_substrate"
    /\ Step(Advance([Entered(tr) EXCEPT !.sub_ports = TRUE]))

\* ptap_wire_arrs, ntap_wire_arrs = self.fill_dummy(): the dummy
\* connections, and the substrate wires.  How many ptap wires there are is
\* left open.
FillDummy ==
    /\ Running(tr) /\ CurStmt(tr) = "fill_dummy"
    /\ \E n_ptap \in 0..1 :
         Step(Advance([Entered(tr) EXCEPT
                !.dum_tracks =
                    {<<i, ResolveDumTrack(i, get_dum_conn_pitch)>> :
                        i \in DumTrackRequests(tr.params)},
                !.sub_wires = TRUE,
                !.n_ptap = n_ptap]))

\* add_pin('b' | 's', ptap_wire_arrs), add_pin('b' | 's', ntap_wire_arrs)
AddPinBody ==
    /\ Running(tr) /\ CurStmt(tr) = "add_pin_body"
    /\ Step(Advance([tr EXCEPT !.pins.b = SubTid]))

\* if global_gnd_layer is not None: ptap_wire_arrs[0] is read; then
\* draw_layout returns
GlobalGnd ==
    /\ Running(tr) /\ CurStmt(tr) = "global_gnd"
    /\ Step(IF tr.params.global_gnd /\ tr.n_ptap = 0
            THEN Fail(tr, Raise("IndexError", "ptap_wire_arrs"))
            ELSE [tr EXCEPT !.pc = "done"])

\* an error arises in the call the statement at hand makes, and propagates
RaiseInCall ==
    /\ Running(tr) /\ CurStmt(tr) \in RaisingCalls
    /\ Step(Fail(Entered(tr), ErrorOf(tr)))

Init ==
    /\ tech_cls \in TechClasses
    /\ tech_widths = <<0, 2, 5>>
    /\ tech_params \in (IF tech_cls = "MOSTech" THEN {NoTechParams}
                        ELSE TechParamSets)
    /\ tech_table = RowTechTable(tech_params)
    /\ qlog = <<>>
    /\ mos = NoMos
    /\ keyed = <<>>
    /\ sweep = NoSweep
    /\ ext = NoExt
    /\ leg = NoLeg
    /\ tr \in {NewRow("Transistor", p) : p \in TransistorParams}
              \cup {NewRow("TransistorGD", p) : p \in TransistorGDParams}
    /\ row_states = <<"Configuring">>
    /\ returned = None
    /\ NoScripts

Next ==
    \/ DrawBaseBlocks
    \/ DrawBaseExt
    \/ DrawBaseEdges
    \/ DrawMosConn
    \/ ConnectGate
    \/ ConnectDrain
    \/ ConnectSource
    \/ ConnectToSubstrate
    \/ FillDummy
    \/ AddPinBody
    \/ GlobalGnd
    \/ RaiseInCall

Spec == Init /\ [][Next]_vars

----------------------------------------------------------------------------
(* Queries of the technology class *)

MosWidths == {2, 4}

\* a query, as the caller sees it: the method, its arguments, what came back
Query(fn, args, result) == [fn |-> fn, args |-> args, result |-> result]

\* a caller makes at most MaxCalls queries
CanQuery == Len(qlog) < MaxCalls

Logged(query) ==
    /\ qlog' = Append(qlog, query)
    /\ UNCHANGED <<techvars, extvars, rowvars, mos, keyed, sweep,
                 scriptvars>>

InitTech ==
    /\ tech_cls \in TechClasses
    /\ tech_widths = <<0>>
    /\ \/ /\ tech_cls = "MOSTech"
          /\ tech_params = NoTechParams
          /\ tech_table = NoTechTable
       \/ /\ tech_cls = "MOSTechImpl"
          /\ tech_params = NoTechParams
          /\ tech_table \in TechTables
       \/ /\ tech_cls = "MOSTechImpl"
          /\ tech_params \in TechParamSets
          /\ tech_table = RowTechTable(tech_params)
    /\ ext = NoExt
    /\ leg = NoLeg
    /\ tr = NoRow
    /\ row_states = <<>>
    /\ returned = None
    /\ qlog = <<>>
    /\ mos = NoMos
    /\ keyed = <<>>
    /\ sweep = NoSweep
    /\ NoScripts

QuerySdPitch ==
    /\ CanQuery
    /\ Logged(Query("get_sd_pitch", <<LchUnit>>, get_sd_pitch(LchUnit)))

QueryNumFingersPerSd ==
    /\ CanQuery
    /\ Logged(Query("get_num_fingers_per_sd", <<LchUnit>>,
                 get_num_fingers_per_sd(LchUnit)))

QueryDumConnTrackInfo ==
    /\ CanQuery
    /\ Logged(Query("get_dum_conn_track_info", <<LchUnit>>,
                 get_dum_conn_track_info(LchUnit)))

QueryMosConnTrackInfo ==
    /\ CanQuery
    /\ Logged(Query("get_mos_conn_track_info", <<LchUnit>>,
                 get_mos_conn_track_info(LchUnit)))

QueryTechConstant ==
    /\ CanQuery
    /\ \E name \in TechConstantQueries :
        Logged(Query("get_tech_constant", <<name>>, get_tech_constant(name)))

QueryMosInfo ==
    /\ CanQuery
    /\ \E w \in MosWidths, mos_type \in MosTypes :
        Logged(Query("get_mos_info", <<LchUnit, w, mos_type, "lvt", 2>>,
                     get_mos_info(LchUnit, w, mos_type, "lvt", 2)))

QueryEdgeInfo ==
    /\ CanQuery
    /\ \E guard_ring_nf \in 0..1, top_layer \in GridLayers, is_end \in BOOLEAN :
        Logged(Query("get_edge_info",
                     <<LchUnit, guard_ring_nf, top_layer, is_end>>,
                     get_edge_info("grid", LchUnit, guard_ring_nf, top_layer,
                                   is_end)))

QueryLeftSdXc ==
    /\ CanQuery
    /\ \E guard_ring_nf \in 0..1, top_layer \in GridLayers, is_end \in BOOLEAN :
        Logged(Query("get_left_sd_xc",
                     <<LchUnit, guard_ring_nf, top_layer, is_end>>,
                     get_left_sd_xc("grid", LchUnit, guard_ring_nf, top_layer,
                                    is_end)))

NextTech ==
    \/ QuerySdPitch
    \/ QueryNumFingersPerSd
    \/ QueryDumConnTrackInfo
    \/ QueryMosConnTrackInfo
    \/ QueryTechConstant
    \/ QueryMosInfo
    \/ QueryEdgeInfo
    \/ QueryLeftSdXc

SpecTech == InitTech /\ [][NextTech]_vars

----------------------------------------------------------------------------
(* MOSTech.draw_mos_connection *)

\* the gate wires of the overriding technology: they start below the
\* transistor, on the columns of the terminal that does not go down; the
\* preferred location decides when both columns are free
ImplGateLoc(sdir, ddir, gate_pref_loc) ==
    IF sdir = 0 THEN "d"
    ELSE IF ddir = 0 THEN "s"
    ELSE gate_pref_loc

ImplMosConnection(sdir, ddir, gate_pref_loc, diode_conn) ==
    [tag |-> "wires", s |-> sdir, d |-> ddir,
     g |-> ImplGateLoc(sdir, ddir, gate_pref_loc),
     g_to_d |-> diode_conn]

\* a connection that always puts the gate where the caller prefers it
draw_mos_connection_pref_always(sdir, ddir, gate_pref_loc, diode_conn) ==
    IF tech_cls = "MOSTech" THEN [tag |-> "wires", g |-> gate_pref_loc]
    ELSE [ImplMosConnection(sdir, ddir, gate_pref_loc, diode_conn)
             EXCEPT !.g = gate_pref_loc]

\* MOSTech.draw_mos_connection: the class's own body is pass; it draws
\* nothing and returns None.
draw_mos_connection(sdir, ddir, gate_pref_loc, diode_conn) ==
    IF tech_cls = "MOSTech" THEN None
    ELSE ImplMosConnection(sdir, ddir, gate_pref_loc, diode_conn)

InitConn ==
    /\ tech_cls \in TechClasses
    /\ tech_widths = <<0>>
    /\ tech_params = NoTechParams
    /\ tech_table = NoTechTable
    /\ ext = NoExt
    /\ leg = NoLeg
    /\ tr = NoRow
    /\ row_states = <<>>
    /\ returned = None
    /\ qlog = <<>>
    /\ mos = NoMos
    /\ keyed = <<>>
    /\ sweep = NoSweep
    /\ NoScripts

\* a connection template asks the technology to draw its wires
DrawMosConnection ==
    /\ CanQuery
    /\ \E sdir \in 0..2, ddir \in 0..2, gate_pref_loc \in {"s", "d"},
          diode_conn \in BOOLEAN :
          Logged(Query("draw_mos_connection",
                       <<sdir, ddir, gate_pref_loc, diode_conn>>,
                       draw_mos_connection(sdir, ddir, gate_pref_loc,
                                           diode_conn)))

NextConn == DrawMosConnection

SpecConn == InitConn /\ [][NextConn]_vars

----------------------------------------------------------------------------
(* The unique keys of the primitive templates *)

\* most templates asked for their key
MaxTemplates == 2

\* lengths, in nanometers
LchValues == {16, 1000}

Thresholds == {"lvt", "hvt"}

ExtInfos == {<<"fin", 1>>, <<"fin", 2>>}

\* AnalogMOSBase.get_params_info
AnalogMOSBaseParams ==
    [mos_type : MosTypes, lch : LchValues, w : MosWidths,
     threshold : Thresholds]

\* AnalogMOSExt.get_params_info
AnalogMOSExtParams ==
    [lch : {16}, w : MosWidths, bot_mtype : {"nch"}, top_mtype : {"pch"},
     bot_thres : {"lvt"}, top_thres : {"lvt"}, top_ext_info : ExtInfos,
     bot_ext_info : ExtInfos, is_laygo : BOOLEAN]

\* a template: its parameters, and what else tells it from its equals (the
\* order it was created in, whether its layout has been drawn)
Template(cls, params, serial, drawn) ==
    [cls |-> cls, params |-> params, serial |-> serial, drawn |-> drawn]

\* bag.float_to_si_string: the number in engineering notation, mantissa
\* and SI prefix; the numbers here are whole nanometers.
float_to_si_string(num) ==
    IF num = 0 THEN <<"0">>
    ELSE IF num >= 1000 THEN <<num \div 1000, num % 1000, "u">>
    ELSE <<num, 0, "n">>

\* TemplateBase.to_immutable_id: the key made hashable, its items kept
to_immutable_id(key) == [tag |-> "id", items |-> key]

\* AnalogMOSBase.get_layout_basename: '%s_l%s_w%s_%s'
AnalogMOSBase_get_layout_basename(self) ==
    LET mos_type == self.params.mos_type
        lstr == float_to_si_string(self.params.lch)
        wstr == float_to_si_string(self.params.w)
        th == self.params.threshold
    IN  <<mos_type, "_l", lstr, "_w", wstr, "_", th>>

\* AnalogMOSBase.compute_unique_key
AnalogMOSBase_compute_unique_key(self) ==
    AnalogMOSBase_get_layout_basename(self)

\* a basename that is the same with and without is_laygo
AnalogMOSExt_get_layout_basename_no_prefix(self) ==
    <<"ext_b", self.params.bot_mtype, "_t", self.params.top_mtype, "_l",
      float_to_si_string(self.params.lch), "_w",
      float_to_si_string(self.params.w), "_b", self.params.bot_thres, "_t",
      self.params.top_thres>>

\* AnalogMOSExt.get_layout_basename: 'ext_b%s_t%s_l%s_w%s_b%s_t%s', with
\* 'laygo_' in front when is_laygo
AnalogMOSExt_get_layout_basename(self) ==
    LET bot_mtype == self.params.bot_mtype
        top_mtype == self.params.top_mtype
        bot_thres == self.params.bot_thres
        top_thres == self.params.top_thres
        lstr == float_to_si_string(self.params.lch)
        wstr == float_to_si_string(self.params.w)
        ans == <<"ext_b", bot_mtype, "_t", top_mtype, "_l", lstr, "_w", wstr,
                 "_b", bot_thres, "_t", top_thres>>
    IN  IF self.params.is_laygo THEN <<"laygo_">> \o ans ELSE ans

AnalogMOSExt_compute_unique_key_serial(self) ==
    to_immutable_id(<<AnalogMOSExt_get_layout_basename(self), self.serial,
                      self.params.bot_ext_info>>)

\* AnalogMOSExt.compute_unique_key
AnalogMOSExt_compute_unique_key(self) ==
    LET key == <<AnalogMOSExt_get_layout_basename(self),
                 self.params.top_ext_info, self.params.bot_ext_info>>
    IN  to_immutable_id(key)

compute_unique_key(self) ==
    IF self.cls = "AnalogMOSBase" THEN AnalogMOSBase_compute_unique_key(self)
    ELSE AnalogMOSExt_compute_unique_key(self)

InitKey ==
    /\ tech_cls = "MOSTech"
    /\ tech_widths = <<0>>
    /\ tech_params = NoTechParams
    /\ tech_table = NoTechTable
    /\ ext = NoExt
    /\ leg = NoLeg
    /\ tr = NoRow
    /\ row_states = <<>>
    /\ returned = None
    /\ qlog = <<>>
    /\ mos = NoMos
    /\ keyed = <<>>
    /\ sweep = NoSweep
    /\ NoScripts

Keyed(self) ==
    /\ keyed' = Append(keyed, [template |-> self,
                               key |-> compute_unique_key(self)])
    /\ UNCHANGED <<techvars, extvars, rowvars, qlog, mos, sweep,
                 scriptvars>>

\* the template database asks a new AnalogMOSBase template for its key
KeyAnalogMOSBase ==
    /\ Len(keyed) < MaxTemplates
    /\ \E params \in AnalogMOSBaseParams, drawn \in BOOLEAN :
          Keyed(Template("AnalogMOSBase", params, Len(keyed), drawn))

\* the template database asks a new AnalogMOSExt template for its key
KeyAnalogMOSExt ==
    /\ Len(keyed) < MaxTemplates
    /\ \E params \in AnalogMOSExtParams, drawn \in BOOLEAN :
          Keyed(Template("AnalogMOSExt", params, Len(keyed), drawn))

NextKey == KeyAnalogMOSBase \/ KeyAnalogMOSExt

SpecKey == InitKey /\ [][NextKey]_vars

----------------------------------------------------------------------------
(* AnalogMOSBase *)

\* AnalogMOSBase.__init__: every field starts as None
NewAnalogMOSBase(params) == [NoMos EXCEPT !.pc = "created", !.params = params]

\* the entries of mos_info, in the order _draw_layout_helper reads them
MosInfoEntries ==
    <<"layout_info", "ext_top_info", "ext_bot_info", "sd_yc", "g_conn_y",
      "d_conn_y">>

\* what the six getters of the template return
Getters(self) ==
    [g_conn_y |-> self.g_conn_y, d_conn_y |-> self.d_conn_y,
     ext_top_info |-> self.ext_top_info, ext_bot_info |-> self.ext_bot_info,
     sd_yc |-> self.sd_yc, edge_layout_info |-> self.layout_info]

\* self._x = mos_info['x'], one entry after the other; a missing entry
\* raises KeyError and leaves the later fields as they were.  A field holds
\* None or Ok(the value assigned).
RECURSIVE StoreEntries(_, _, _)
StoreEntries(self, mos_info, k) ==
    IF k > Len(MosInfoEntries) THEN self
    ELSE IF MosInfoEntries[k] \notin DOMAIN mos_info
    THEN [self EXCEPT !.pc = "raised",
                      !.exc = Raise("KeyError", MosInfoEntries[k])]
    ELSE StoreEntries([self EXCEPT ![MosInfoEntries[k]] =
                                       Ok(mos_info[MosInfoEntries[k]])],
                      mos_info, k + 1)

AnalogMOSBase_draw_layout_helper_swapped(self) ==
    LET mos_info == get_mos_info(LchUnit, self.params.w, self.params.mos_type,
                                 self.params.threshold, get_analog_unit_fg)
    IN  IF IsExc(mos_info) THEN [self EXCEPT !.pc = "raised", !.exc = mos_info]
        ELSE LET stored == StoreEntries(self, mos_info, 1)
                 swapped == [stored EXCEPT !.g_conn_y = stored.d_conn_y,
                                           !.d_conn_y = stored.g_conn_y]
             IN  IF stored.pc = "raised" THEN stored
                 ELSE [swapped EXCEPT !.pc = "drawn",
                                      !.draw_mos_saw = Getters(swapped)]

AnalogMOSBase_draw_layout_helper_swallow(self) ==
    LET mos_info == get_mos_info(LchUnit, self.params.w, self.params.mos_type,
                                 self.params.threshold, get_analog_unit_fg)
    IN  IF IsExc(mos_info) THEN [self EXCEPT !.pc = "drawn"]
        ELSE LET stored == StoreEntries(self, mos_info, 1)
             IN  IF stored.pc = "raised" THEN [self EXCEPT !.pc = "drawn"]
                 ELSE [stored EXCEPT !.pc = "drawn",
                                     !.draw_mos_saw = Getters(stored)]

\* AnalogMOSBase._draw_layout_helper: get_mos_info, the six assignments,
\* then draw_mos(self, self._layout_info); no try/except.
AnalogMOSBase_draw_layout_helper(self) ==
    LET mos_info == get_mos_info(LchUnit, self.params.w, self.params.mos_type,
                                 self.params.threshold, get_analog_unit_fg)
    IN  IF IsExc(mos_info) THEN [self EXCEPT !.pc = "raised", !.exc = mos_info]
        ELSE LET stored == StoreEntries(self, mos_info, 1)
             IN  IF stored.pc = "raised" THEN stored
                 ELSE [stored EXCEPT !.pc = "drawn",
                                     !.draw_mos_saw = Getters(stored)]

----------------------------------------------------------------------------
(* design_tail (design_scripts/diffamp_casc/linearity.py) *)

\* largest time constant and largest output resistance of a tail candidate
MaxTau == 2
MaxRo == 2

\* the sweep of tail finger numbers, and the process corners
FgSwp == <<2, 4>>
EnvList == <<"tt", "ff">>

\* What solving and looking up one candidate in one corner gives: brentq
\* finds no bias (ValueError), the database fails (KeyError), or the
\* candidate's time constant and output resistance.
TailOutcomes ==
    {[tag |-> "exc", name |-> n] : n \in {"ValueError", "KeyError"}}
    \cup {[tag |-> "ok", tau |-> t, ro |-> r] : t \in 1..MaxTau, r \in 1..MaxRo}

SweepInputs ==
    [sol : [(1..Len(FgSwp)) \X (1..Len(EnvList)) -> TailOutcomes],
     tau_max : 1..MaxTau]

NewSweep(inp) == [pc |-> "ready", inp |-> inp, result |-> None]

\* solve_tail_bias and the database query of candidate c in corner e; an
\* exception says where it arose
solve_tail_bias(inp, c, e) ==
    LET out == inp.sol[<<c, e>>]
    IN  IF IsExc(out) THEN Raise(out.name, <<FgSwp[c], EnvList[e]>>)
        ELSE [out EXCEPT !.tag = "ok"]

vbias_of(c, e) == <<"vbias", FgSwp[c], EnvList[e]>>

\* more than any resistance: float('inf')
RoInf == MaxRo + 1

NewCandidate ==
    [tag |-> "acc", tau_worst |-> 0, ro_worst |-> RoInf, ro_list |-> <<>>,
     vbias_list |-> <<>>]

\* the loop over the corners for candidate c: except ValueError sets
\* tau_worst = None and breaks; any other exception leaves design_tail
RECURSIVE TailCandidate(_, _, _, _)
TailCandidate(inp, c, e, acc) ==
    IF e > Len(EnvList) THEN acc
    ELSE LET out == solve_tail_bias(inp, c, e)
         IN  IF IsExc(out)
             THEN (IF out.name = "ValueError" THEN [acc EXCEPT !.tag = "skip"]
                   ELSE out)
             ELSE TailCandidate(inp, c, e + 1,
                    [acc EXCEPT
                        !.vbias_list = Append(@, vbias_of(c, e)),
                        !.ro_list = Append(@, out.ro),
                        !.tau_worst = IF out.tau > @ THEN out.tau ELSE @,
                        !.ro_worst = IF out.ro < @ THEN out.ro ELSE @])

NoOpt ==
    [fg_opt |-> None, ro_opt |-> 0, vbias_list_opt |-> <<>>,
     ro_list_opt |-> None]

\* the loop over fg_swp, and what follows it
\* a sweep that lets a later candidate take the place of an equal one
RECURSIVE TailSweep_last_on_ties(_, _, _)
TailSweep_last_on_ties(inp, c, opt) ==
    IF c > Len(FgSwp)
    THEN (IF opt.fg_opt = None
          THEN Raise("ValueError", "No solution for tail current source.")
          ELSE Ok(<<opt.fg_opt.val, opt.ro_list_opt, opt.vbias_list_opt>>))
    ELSE LET acc == TailCandidate(inp, c, 1, NewCandidate)
         IN  IF IsExc(acc) THEN acc
             ELSE IF acc.tag = "skip"
             THEN TailSweep_last_on_ties(inp, c + 1, opt)
             ELSE IF acc.tau_worst <= inp.tau_max /\ acc.ro_worst >= opt.ro_opt
             THEN TailSweep_last_on_ties(inp, c + 1,
                    [fg_opt |-> Ok(FgSwp[c]), ro_opt |-> acc.ro_worst,
                     vbias_list_opt |-> acc.vbias_list,
                     ro_list_opt |-> acc.ro_list])
             ELSE TailSweep_last_on_ties(inp, c + 1, opt)

RECURSIVE TailSweep(_, _, _)
TailSweep(inp, c, opt) ==
    IF c > Len(FgSwp)
    THEN (IF opt.fg_opt = None
          THEN Raise("ValueError", "No solution for tail current source.")
          ELSE Ok(<<opt.fg_opt.val, opt.ro_list_opt, opt.vbias_list_opt>>))
    ELSE LET acc == TailCandidate(inp, c, 1, NewCandidate)
         IN  IF IsExc(acc) THEN acc
             ELSE IF acc.tag = "skip" THEN TailSweep(inp, c + 1, opt)
             ELSE IF acc.tau_worst <= inp.tau_max /\ acc.ro_worst > opt.ro_opt
             THEN TailSweep(inp, c + 1,
                    [fg_opt |-> Ok(FgSwp[c]), ro_opt |-> acc.ro_worst,
                     vbias_list_opt |-> acc.vbias_list,
                     ro_list_opt |-> acc.ro_list])
             ELSE TailSweep(inp, c + 1, opt)

design_tail(inp) == TailSweep(inp, 1, NoOpt)

----------------------------------------------------------------------------
(* The components at work: a layout generator creates and draws primitive *)
(* templates; the design script runs design_tail.                         *)

InitComp ==
    /\ tech_widths = <<0, 2, 5>>
    /\ tech_params = NoTechParams
    /\ \/ /\ tech_cls = "MOSTech"
          /\ tech_table = NoTechTable
          /\ sweep \in {NoSweep} \cup {NewSweep(inp) : inp \in SweepInputs}
       \/ /\ tech_cls = "MOSTechImpl"
          /\ tech_table \in TechTables
          /\ sweep = NoSweep
    /\ ext = NoExt
    /\ leg = NoLeg
    /\ tr = NoRow
    /\ row_states = <<>>
    /\ returned = None
    /\ qlog = <<>>
    /\ mos = NoMos
    /\ keyed = <<>>
    /\ NoScripts

\* the generator creates an AnalogMOSBase template
NewMos ==
    /\ mos.pc = "none"
    /\ sweep.pc = "none"
    /\ \E mos_type \in MosTypes, w \in MosWidths :
          mos' = NewAnalogMOSBase([mos_type |-> mos_type, w |-> w,
                                   lch |-> 16, threshold |-> "lvt"])
    /\ UNCHANGED <<techvars, extvars, rowvars, qlog, keyed, sweep,
                 scriptvars>>

\* AnalogMOSBase.draw_layout
MosDrawLayout ==
    /\ mos.pc = "created"
    /\ mos' = AnalogMOSBase_draw_layout_helper(mos)
    /\ UNCHANGED <<techvars, extvars, rowvars, qlog, keyed, sweep,
                 scriptvars>>

\* a user of the template calls its six getters
MosGetters ==
    /\ mos.pc \in {"created", "drawn"}
    /\ mos.got # [at |-> mos.pc, val |-> Getters(mos)]
    /\ mos' = [mos EXCEPT !.got = [at |-> mos.pc, val |-> Getters(mos)]]
    /\ UNCHANGED <<techvars, extvars, rowvars, qlog, keyed, sweep,
                 scriptvars>>

\* the generator creates an AnalogMOSExt template
NewExt ==
    /\ sweep.pc = "none"
    /\ RequestExt

\* the design script calls design_tail
DesignTail ==
    /\ sweep.pc = "ready"
    /\ sweep' = [sweep EXCEPT !.pc = "done", !.result = design_tail(sweep.inp)]
    /\ UNCHANGED <<techvars, extvars, rowvars, qlog, mos, keyed,
                 scriptvars>>

NextComp ==
    \/ NewMos
    \/ MosDrawLayout
    \/ MosGetters
    \/ NewExt
    \/ ExtDrawLayout
    \/ DesignTail

SpecComp == InitComp /\ [][NextComp]_vars

----------------------------------------------------------------------------
(* StackDriver (test_scripts/stack_driver.py) *)

\* largest number of blocks and of dummy blocks on each side
MaxNumBlk == 6
MaxNumDblk == 2

StackDriverParams ==
    [num_blk : 2..MaxNumBlk, num_dblk : 0..MaxNumDblk,
     draw_boundaries : BOOLEAN]

\* the template after __init__; fg2d_s_short is what the technology's laygo
\* configuration says
NewStackDriver(params, fg2d_s_short) ==
    [pc |-> "created", params |-> params, fg2d_s_short |-> fg2d_s_short,
     row_types |-> None, placed |-> <<>>, num_col |-> None, exc |-> None]

\* LaygoBase.add_laygo_primitive(blk_type, loc=(col, row), nx=nx, spx=spx):
\* nx instances, spx columns apart, the first at col
add_laygo_primitive(blk_type, col, row, nx, spx) ==
    [i \in 1..nx |-> [blk |-> blk_type, col |-> col + (i - 1) * spx,
                      row |-> row]]

\* StackDriver.draw_layout
StackDriver_draw_layout(self) ==
    IF ~self.fg2d_s_short
    THEN [self EXCEPT !.pc = "raised",
                      !.exc = Raise("ValueError", "fg2d_s_short")]
    ELSE LET num_blk == self.params.num_blk
             num_dblk == self.params.num_dblk
             end_mode == IF self.params.draw_boundaries THEN 15 ELSE 0
             tot_blk == 2 * num_dblk + num_blk
             nx == (tot_blk - 2) \div 2
         IN  [self EXCEPT
                !.pc = "drawn",
                !.row_types = Ok([row_list |-> <<"ptap", "nch", "pch", "ntap">>,
                                  end_mode |-> end_mode]),
                !.placed =
                    add_laygo_primitive("sub", 0, 3, tot_blk, 1)
                    \o add_laygo_primitive("dual_stack2sl", 0, 2, 1, 0)
                    \o add_laygo_primitive("dual_stack2sr", 1, 2, nx, 2)
                    \o add_laygo_primitive("dual_stack2sl", 2, 2, nx, 2)
                    \o add_laygo_primitive("dual_stack2sr", tot_blk - 1, 2, 1, 0)
                    \o add_laygo_primitive("dual_stack2sr", 0, 1, 1, 0)
                    \o add_laygo_primitive("dual_stack2sl", 1, 1, nx, 2)
                    \o add_laygo_primitive("dual_stack2sr", 2, 1, nx, 2)
                    \o add_laygo_primitive("dual_stack2sl", tot_blk - 1, 1, 1, 0)
                    \o add_laygo_primitive("sub", 0, 0, tot_blk, 1),
                !.num_col = Ok(tot_blk)]

InitStack ==
    /\ tech_cls = "MOSTech"
    /\ tech_widths = <<0>>
    /\ tech_params = NoTechParams
    /\ tech_table = NoTechTable
    /\ ext = NoExt
    /\ leg = NoLeg
    /\ tr = NoRow
    /\ row_states = <<>>
    /\ returned = None
    /\ qlog = <<>>
    /\ mos = NoMos
    /\ keyed = <<>>
    /\ sweep = NoSweep
    /\ stack = NoStack
    /\ amp = NoAmp
    /\ design = NoDesign

\* the template database creates a StackDriver template
NewStack ==
    /\ stack.pc = "none"
    /\ \E params \in StackDriverParams, fg2d_s_short \in BOOLEAN :
          stack' = NewStackDriver(params, fg2d_s_short)
    /\ UNCHANGED <<techvars, extvars, rowvars, qlog, mos, keyed, sweep, amp,
                   design>>

\* StackDriver.draw_layout
StackDrawLayout ==
    /\ stack.pc = "created"
    /\ stack' = StackDriver_draw_layout(stack)
    /\ UNCHANGED <<techvars, extvars, rowvars, qlog, mos, keyed, sweep, amp,
                   design>>

NextStack == NewStack \/ StackDrawLayout

SpecStack == InitStack /\ [][NextStack]_vars

----------------------------------------------------------------------------
(* characterize_casc_amp (design_scripts/diffamp_casc/linearity.py) *)

\* largest scale_max; scales are counted in steps of scale_res from
\* scale_min = ScaleMin
MaxScale == 3
ScaleMin == 1
ScaleRes == 1

\* the scales the search can try: it doubles its step until it has passed
\* scale_max
Scales == ScaleMin..(2 * MaxScale + 1)

\* bag.util.search.BinaryIterator(low, None, step): a search over
\* low + k * step, k = 0, 1, 2, 4, ... until down() gives an upper end, by
\* bisection from then on
BinaryIterator(low, step) ==
    [offset |-> low, step |-> step, low |-> 0, high |-> None, current |-> 0,
     save_marker |-> None]

has_next(it) == it.high = None \/ it.low < it.high.val

get_next(it) == it.current * it.step + it.offset

up(it) ==
    [it EXCEPT !.low = it.current + 1,
               !.current = IF it.high # None
                           THEN (it.current + 1 + it.high.val) \div 2
                           ELSE IF it.current > 0 THEN 2 * it.current
                           ELSE 1]

down(it) ==
    [it EXCEPT !.high = Ok(it.current),
               !.current = (it.low + it.current) \div 2]

save(it) == [it EXCEPT !.save_marker = Ok(get_next(it))]

get_last_save(it) == it.save_marker

\* bag.data.lti.LTICircuit: what lies between the nodes the search touches,
\* capacitance at 'd' and at 'out', conductance between 'd' and 'out'; the
\* transistors and the fanout load are in it from the start
HalfCircuit == [cap_d |-> 3, cap_out |-> 2, g_d_out |-> 0]

add_cap(circuit, cap, node) ==
    IF node = "d" THEN [circuit EXCEPT !.cap_d = @ + cap]
    ELSE [circuit EXCEPT !.cap_out = @ + cap]

\* the conductance of a resistance, negative for a negative one
Conductance(res) == IF res > 0 THEN 2520 \div res ELSE -(2520 \div (-res))

add_res(circuit, res) == [circuit EXCEPT !.g_d_out = @ + Conductance(res)]

\* cap_cur = cw / 2 / cur_scale, res_cur = rw * cur_scale
cap_cur(cur_scale) == 2520 \div cur_scale
res_cur(cur_scale) == cur_scale

\* add scaled wired parasitics
AddWireParasitics(circuit, cur_scale) ==
    add_res(add_cap(add_cap(circuit, cap_cur(cur_scale), "d"),
                    cap_cur(cur_scale), "out"),
            res_cur(cur_scale))

\* a removal that leaves the wire resistance in the circuit
RemoveWireParasitics_caps_only(circuit, cur_scale) ==
    add_cap(add_cap(circuit, -cap_cur(cur_scale), "d"),
            -cap_cur(cur_scale), "out")

\* remove wire parasitics
RemoveWireParasitics(circuit, cur_scale) ==
    add_res(add_cap(add_cap(circuit, -cap_cur(cur_scale), "d"),
                    -cap_cur(cur_scale), "out"),
            -res_cur(cur_scale))

\* k_settle_cur >= k_settle_targ: the step response of the circuit as it
\* is; meets holds the scales at which the half circuit with the wire of
\* that scale, and nothing else, settles in time
KSettleMeets(circuit, meets) ==
    \E scale \in meets : circuit = AddWireParasitics(HalfCircuit, scale)

NewSearch == [it |-> BinaryIterator(ScaleMin, ScaleRes),
              circuit |-> HalfCircuit, trials |-> <<>>, exc |-> None]

\* one pass of the while loop
ScaleIteration(st, meets, scale_max) ==
    LET cur_scale == get_next(st.it)
        wired == AddWireParasitics(st.circuit, cur_scale)
        met == KSettleMeets(wired, meets)
        trial == [scale |-> cur_scale, met |-> met, before |-> st.circuit]
    IN  IF met
        THEN [st EXCEPT !.it = down(save(st.it)),
                        !.circuit = RemoveWireParasitics(wired, cur_scale),
                        !.trials = Append(@, trial)]
        ELSE IF cur_scale > scale_max
        THEN [st EXCEPT !.circuit = wired,
                        !.trials = Append(@, trial),
                        !.exc = Raise("ValueError", cur_scale)]
        ELSE [st EXCEPT !.it = up(st.it),
                        !.circuit = RemoveWireParasitics(wired, cur_scale),
                        !.trials = Append(@, trial)]

\* while bin_iter.has_next(): ...
RECURSIVE ScaleSearch(_, _, _)
ScaleSearch(st, meets, scale_max) ==
    IF st.exc # None \/ ~has_next(st.it) THEN st
    ELSE ScaleSearch(ScaleIteration(st, meets, scale_max), meets, scale_max)

\* a call of characterize_casc_amp
NewAmp(scale_max) ==
    [pc |-> "called", scale_max |-> scale_max, env |-> 1, scale_list |-> <<>>,
     meets |-> {}, search |-> NewSearch, result |-> None]

InitAmp ==
    /\ tech_cls = "MOSTech"
    /\ tech_widths = <<0>>
    /\ tech_params = NoTechParams
    /\ tech_table = NoTechTable
    /\ ext = NoExt
    /\ leg = NoLeg
    /\ tr = NoRow
    /\ row_states = <<>>
    /\ returned = None
    /\ qlog = <<>>
    /\ mos = NoMos
    /\ keyed = <<>>
    /\ sweep = NoSweep
    /\ stack = NoStack
    /\ amp \in {NewAmp(scale_max) : scale_max \in ScaleMin..MaxScale}
    /\ design = NoDesign

\* results = solve_casc_diff_dc(...): the DC transfer curves, or ValueError
AmpSolveDc ==
    /\ amp.pc = "called"
    /\ \E solved \in BOOLEAN :
          amp' = IF solved THEN [amp EXCEPT !.pc = "envs"]
                 ELSE [amp EXCEPT !.pc = "raised",
                                  !.result = Raise("ValueError", "dc")]
    /\ UNCHANGED <<techvars, extvars, rowvars, qlog, mos, keyed, sweep, stack,
                   design>>

\* one pass of the loop over the environments: the half circuit is built
\* from the database's parameters, the scale is searched and appended
AmpEnv ==
    /\ amp.pc = "envs"
    /\ \E meets \in SUBSET Scales :
          LET st == ScaleSearch(NewSearch, meets, amp.scale_max)
              done == [amp EXCEPT !.meets = meets, !.search = st]
          IN  amp' =
                IF st.exc # None
                THEN [done EXCEPT !.pc = "raised", !.result = st.exc]
                ELSE IF amp.env = Len(EnvList)
                THEN [done EXCEPT
                        !.pc = "returned",
                        !.scale_list = Append(@, get_last_save(st.it).val),
                        !.result =
                           Ok(Append(amp.scale_list, get_last_save(st.it).val))]
                ELSE [done EXCEPT
                        !.env = @ + 1,
                        !.scale_list = Append(@, get_last_save(st.it).val)]
    /\ UNCHANGED <<techvars, extvars, rowvars, qlog, mos, keyed, sweep, stack,
                   design>>

NextAmp == AmpSolveDc \/ AmpEnv

SpecAmp == InitAmp /\ [][NextAmp]_vars

----------------------------------------------------------------------------
(* test(): the design sweep (design_scripts/diffamp_casc/linearity.py) *)

\* largest drain current of an input finger, largest current a load finger
\* can carry, largest scale of a characterization
MaxIds == 2
MaxDrive == 2
MaxAmpScale == 2

\* fg_in = 4; the first two candidates of range(4, 11, 2) for fg_casc, and
\* range(2, 5, 2) for fg_load
FgIn == 4
FgCascRange == <<4, 6>>
FgLoadRange == <<2, 4>>

\* solve_casc_gm_dc: ValueError, or the drain current of an input finger in
\* each environment
CascOutcomes ==
    {Raise("ValueError", "solution failed.")}
    \cup {Ok(ids) : ids \in [1..Len(EnvList) -> 1..MaxIds]}

\* design_tail, as test() sees it: ValueError, or a tail
TailResults == {Raise("ValueError", "No solution for tail current source."),
                Ok(<<4, "rtail", "vbias">>)}

\* characterize_casc_amp, as test() sees it: ValueError, or its scale_list
AmpResults ==
    {Raise("ValueError", "settling")}
    \cup {Ok(scale_list) :
            scale_list \in [1..Len(EnvList) -> 1..MaxAmpScale]}

\* solve_load_bias: brentq finds a load bias in [0, vdd] when the load can
\* carry the bias current, and raises ValueError when it cannot
solve_load_bias(fg_load, ibias_list, drive) ==
    IF \A e \in 1..Len(ibias_list) : ibias_list[e] <= fg_load * drive
    THEN Ok(<<"vload", fg_load, ibias_list>>)
    ELSE Raise("ValueError", <<"load", fg_load, ibias_list>>)

ListMax(list) == CHOOSE m \in {list[i] : i \in 1..Len(list)} :
                    \A i \in 1..Len(list) : list[i] <= m

NewDesign ==
    [pc |-> "run", ic |-> 1, opt_ibias |-> None, opt_info |-> [tag |-> "dict"],
     log |-> <<>>]

\* a line of what happened to a candidate
Tried(fg_casc, fg_load, stage, given, ibias_list) ==
    [fg_casc |-> fg_casc, fg_load |-> fg_load, stage |-> stage,
     given |-> given, ibias_list |-> ibias_list]

\* a sweep that gives up the remaining loads after a load that fails
RECURSIVE LoadSweep_break(_, _, _, _, _, _)
LoadSweep_break(self, fg_casc, l, ibias_list, amp_of, drive) ==
    IF l > Len(FgLoadRange) THEN self
    ELSE LET fg_load == FgLoadRange[l]
             vload_list == solve_load_bias(fg_load, ibias_list, drive)
             results == amp_of[l]
         IN  IF IsExc(vload_list)
             THEN [self EXCEPT !.log = Append(@,
                      Tried(fg_casc, fg_load, "load", ibias_list, <<>>))]
             ELSE IF IsExc(results)
             THEN [self EXCEPT !.log = Append(@,
                      Tried(fg_casc, fg_load, "amp", ibias_list, <<>>))]
             ELSE LET max_scale == ListMax(results.val)
                      scaled == [e \in 1..Len(ibias_list) |->
                                    max_scale * ibias_list[e]]
                      ibias_worst == ListMax(scaled)
                      logged == [self EXCEPT !.log = Append(@,
                                   Tried(fg_casc, fg_load, "passed",
                                         ibias_list, scaled))]
                  IN  LoadSweep_break(
                        IF self.opt_ibias = None
                           \/ ibias_worst < self.opt_ibias.val
                        THEN [logged EXCEPT
                                !.opt_ibias = Ok(ibias_worst),
                                !.opt_info =
                                   [tag |-> "dict",
                                    fg_list |-> <<4, FgIn, fg_casc, fg_load>>,
                                    vload_list |-> vload_list.val,
                                    ibias_list |-> scaled,
                                    scale |-> max_scale]]
                        ELSE logged,
                        fg_casc, l + 1, scaled, amp_of, drive)

\* for fg_load in fg_load_range: solve_load_bias, characterize_casc_amp,
\* ibias_list = [max_scale * val for val in ibias_list], the optimum
RECURSIVE LoadSweep(_, _, _, _, _, _)
LoadSweep(self, fg_casc, l, ibias_list, amp_of, drive) ==
    IF l > Len(FgLoadRange) THEN self
    ELSE LET fg_load == FgLoadRange[l]
             vload_list == solve_load_bias(fg_load, ibias_list, drive)
             results == amp_of[l]
         IN  IF IsExc(vload_list)
             THEN LoadSweep([self EXCEPT !.log = Append(@,
                               Tried(fg_casc, fg_load, "load", ibias_list,
                                     <<>>))],
                            fg_casc, l + 1, ibias_list, amp_of, drive)
             ELSE IF IsExc(results)
             THEN LoadSweep([self EXCEPT !.log = Append(@,
                               Tried(fg_casc, fg_load, "amp", ibias_list,
                                     <<>>))],
                            fg_casc, l + 1, ibias_list, amp_of, drive)
             ELSE LET max_scale == ListMax(results.val)
                      scaled == [e \in 1..Len(ibias_list) |->
                                    max_scale * ibias_list[e]]
                      ibias_worst == ListMax(scaled)
                      logged == [self EXCEPT !.log = Append(@,
                                   Tried(fg_casc, fg_load, "passed",
                                         ibias_list, scaled))]
                  IN  LoadSweep(
                        IF self.opt_ibias = None
                           \/ ibias_worst < self.opt_ibias.val
                        THEN [logged EXCEPT
                                !.opt_ibias = Ok(ibias_worst),
                                !.opt_info =
                                   [tag |-> "dict",
                                    fg_list |-> <<4, FgIn, fg_casc, fg_load>>,
                                    vload_list |-> vload_list.val,
                                    ibias_list |-> scaled,
                                    scale |-> max_scale]]
                        ELSE logged,
                        fg_casc, l + 1, scaled, amp_of, drive)

\* the bias currents of a fg_casc candidate: fg_in * ids of each environment
BiasCurrents(casc) == [e \in 1..Len(EnvList) |-> FgIn * casc.val[e]]

\* one pass of for fg_casc in fg_casc_range
CascPass(self, casc, tail, amp_of, drive) ==
    LET fg_casc == FgCascRange[self.ic]
        next == [self EXCEPT !.ic = @ + 1,
                             !.pc = IF self.ic = Len(FgCascRange) THEN "done"
                                    ELSE "run"]
    IN  IF IsExc(casc)
        THEN [next EXCEPT !.log = Append(@,
                 Tried(fg_casc, 0, "casc", <<>>, <<>>))]
        ELSE IF IsExc(tail)
        THEN [next EXCEPT !.log = Append(@,
                 Tried(fg_casc, 0, "tail", <<>>, <<>>))]
        ELSE LoadSweep(next, fg_casc, 1, BiasCurrents(casc), amp_of, drive)

InitDesign ==
    /\ tech_cls = "MOSTech"
    /\ tech_widths = <<0>>
    /\ tech_params = NoTechParams
    /\ tech_table = NoTechTable
    /\ ext = NoExt
    /\ leg = NoLeg
    /\ tr = NoRow
    /\ row_states = <<>>
    /\ returned = None
    /\ qlog = <<>>
    /\ mos = NoMos
    /\ keyed = <<>>
    /\ sweep = NoSweep
    /\ stack = NoStack
    /\ amp = NoAmp
    /\ design = NewDesign

\* test() goes through one fg_casc candidate; what the solvers and the
\* characterization give for it comes from the device data
DesignCasc ==
    /\ design.pc = "run"
    /\ \E casc \in CascOutcomes, tail \in TailResults,
          amp_of \in [1..Len(FgLoadRange) -> AmpResults],
          drive \in 1..MaxDrive :
          design' = CascPass(design, casc, tail, amp_of, drive)
    /\ UNCHANGED <<techvars, extvars, rowvars, qlog, mos, keyed, sweep, stack,
                   amp>>

NextDesign == DesignCasc

SpecDesign == InitDesign /\ [][NextDesign]_vars

----------------------------------------------------------------------------
(* Claims about the extension widths *)

\* the legal set a valid-width list L stands for, in the claims' own words
InLegalSet(L, h) == (\E i \in 1..Len(L) : L[i] = h) \/ h >= L[Len(L)]

ExtFinished == ext.pc \in {"drawn", "raised"}

ExtWidths == get_valid_extension_widths(LchUnit, ExtTopInfo, ExtBotInfo)

\* C1: for the list L of get_valid_extension_widths and every height
\* h >= 0, if h is an element of L or h >= the last element of L, then
\* materialising the extension of height h (AnalogMOSExt.draw_layout ->
\* get_ext_info) succeeds: no exception, and the layout information is set
\* and handed to draw_mos.
C1_LegalHeightMaterializes ==
    (ExtFinished /\ ext.w >= 0 /\ InLegalSet(ExtWidths, ext.w))
        => /\ ext.pc = "drawn"
           /\ ext.exc = None
           /\ ext.layout_info.tag = "dict"
           /\ ext.drawn = ext.layout_info

\* C1 witness: L = [0, 2, 5], height 7 (open tail), drawn.
C1_Witness ==
    /\ tech_cls = "MOSTechImpl" /\ tech_widths = <<0, 2, 5>>
    /\ ext.pc = "drawn" /\ ext.w = 7 /\ ext.layout_info.tag = "dict"

\* C2: materialising an extension of a height that is not an element of L
\* and is below the last element of L fails with IllegalExtensionHeight,
\* and the template holds no extension layout information afterwards.
C2_IllegalHeightRejected ==
    (ExtFinished /\ ext.w >= 0 /\ ~InLegalSet(ExtWidths, ext.w))
        => /\ ext.pc = "raised"
           /\ ext.exc.tag = "exc"
           /\ ext.exc.name = "IllegalExtensionHeight"
           /\ ext.layout_info = None
           /\ ext.drawn = None

\* C2 witness: L = [0, 2, 5], height 3, rejected.
C2_Witness ==
    /\ tech_cls = "MOSTechImpl" /\ tech_widths = <<0, 2, 5>>
    /\ ext.pc = "raised" /\ ext.w = 3 /\ ext.layout_info = None

\* C3: the list get_valid_extension_widths returns is non-empty, strictly
\* increasing, and its first element is >= 0 (for the list as returned to
\* the legalizer, and for the list of every technology class).
C3_WidthsStrictlyIncreasing ==
    /\ Len(ExtWidths) >= 1
    /\ \A i \in 1..(Len(ExtWidths) - 1) : ExtWidths[i] < ExtWidths[i + 1]
    /\ ExtWidths[1] >= 0
    /\ leg.tag = "leg" => leg.widths = ExtWidths

\* C3 witness: the legalizer received the list [0] of MOSTech itself.
C3_Witness ==
    /\ tech_cls = "MOSTech" /\ leg.tag = "leg" /\ leg.widths = <<0>>

\* C7: the extension height chosen for a gap is legal, meets the imposed
\* minimum, is a multiple of the required pitch (pitch 1: no requirement),
\* and no smaller height meets the same three constraints.
C7_SmallestLegalHeight ==
    leg.tag = "leg" =>
        LET Meets(h) == /\ InLegalSet(leg.widths, h)
                        /\ h >= leg.min_w
                        /\ h % leg.blk_pitch = 0
        IN  /\ Meets(leg.w)
            /\ \A h \in 0..(leg.w - 1) : ~Meets(h)
            /\ ext.w = leg.w

\* C7 witness: L = [0, 2, 5], minimum 1, pitch 2: height 2 is chosen, and
\* the case where the pitch forces the open tail (L = [0, 3, 5], minimum 1,
\* pitch 2 gives 6) is told apart by its own list.
C7_Witness ==
    /\ leg.tag = "leg" /\ leg.widths = <<0, 3, 5>>
    /\ leg.min_w = 1 /\ leg.blk_pitch = 2 /\ leg.w = 6
    /\ ext.pc = "drawn"

----------------------------------------------------------------------------
(* Claims about row assembly *)

Last(h) == h[Len(h)]

IsPrefixOf(h, order) ==
    /\ Len(h) <= Len(order)
    /\ \A i \in 1..Len(h) : h[i] = order[i]

\* C4: row assembly passes through Configuring, BlocksBuilt,
\* ExtensionsLegalized, EdgesComposed, TracksResolved, Finalized in this
\* order, none skipped and none revisited; nothing happens after Finalized
\* or Failed; and in every state before the tracks are resolved a
\* propagating error can take the row to Failed (the witness shows the
\* failure that follows TracksResolved).
C4_RowStatesInOrder ==
    LET n == Len(row_states)
    IN  /\ n >= 1
        /\ Last(row_states) = RowState(tr)
        /\ IF Last(row_states) = "Failed"
           THEN /\ n >= 2
                /\ IsPrefixOf(SubSeq(row_states, 1, n - 1), RowOrder)
                /\ row_states[n - 1] # "Finalized"
           ELSE IsPrefixOf(row_states, RowOrder)
        /\ (Last(row_states) \in {"Finalized", "Failed"} => ~ ENABLED Next)
        /\ (Last(row_states) \in {"Configuring", "BlocksBuilt",
                                  "ExtensionsLegalized", "EdgesComposed"}
                => ENABLED (RaiseInCall /\ Last(row_states') = "Failed"))

\* a row that failed after its tracks were resolved
C4_Witness ==
    row_states = <<"Configuring", "BlocksBuilt", "ExtensionsLegalized",
                   "EdgesComposed", "TracksResolved", "Failed">>

DeviceCalls(cls) ==
    IF cls = "Transistor"
    THEN {"draw_mos_conn", "connect_g", "connect_d", "connect_s"}
    ELSE {"draw_mos_conn", "connect_g", "connect_d", "connect_to_substrate"}

\* C6, as amended: the device connections of a row (draw_mos_conn, the
\* connect_to_tracks of gate and drain, then the source: connect_to_tracks
\* in Transistor, connect_to_substrate in TransistorGD) are made first and
\* in this order; fill_dummy comes only after every one of them, in both
\* classes; and the substrate wires exist only once fill_dummy has
\* returned them.
C6_DummyFillAfterDeviceConnections ==
    LET calls == tr.calls
        At(c) == {i \in DOMAIN calls : calls[i] = c}
        Before(a, b) == \A j \in At(b) : \E i \in At(a) : i < j
    IN  /\ \A c \in DeviceCalls(tr.cls) :
              /\ Before(c, "fill_dummy")
              /\ \A i \in At(c) : \A j \in At("fill_dummy") : i < j
        /\ Before("draw_base", "draw_mos_conn")
        /\ Before("draw_mos_conn", "connect_g")
        /\ Before("connect_g", "connect_d")
        /\ Before("connect_d", "connect_s")
        /\ Before("connect_d", "connect_to_substrate")
        /\ (tr.sub_wires => At("fill_dummy") # {})
        /\ (tr.pc = "done" => At("fill_dummy") # {})

\* a finished TransistorGD row
C6_Witness ==
    /\ tr.cls = "TransistorGD"
    /\ tr.pc = "done"
    /\ tr.calls = <<"draw_base", "draw_mos_conn", "connect_g", "connect_d",
                    "connect_to_substrate", "fill_dummy">>

\* C6, as stated: the substrate is resolved before the device rows, that
\* is, whenever a device connection has been made the substrate wires are
\* there, and fill_dummy comes after every device connection.
C6_SubstrateBeforeDeviceRows ==
    LET calls == tr.calls
        At(c) == {i \in DOMAIN calls : calls[i] = c}
    IN  /\ ((\E c \in DeviceCalls(tr.cls) : At(c) # {}) => tr.sub_wires)
        /\ \A c \in DeviceCalls(tr.cls) :
              \A i \in At(c) : \A j \in At("fill_dummy") : i < j

\* C8: every dummy connection is on a track whose index is a multiple of
\* get_dum_conn_pitch(): the smallest such multiple at or above the index
\* asked for.
C8_DummyTracksRoundedUp ==
    \A t \in tr.dum_tracks :
        /\ t[2] % get_dum_conn_pitch = 0
        /\ t[2] >= t[1]
        /\ t[2] - t[1] < get_dum_conn_pitch
        /\ (t[1] % get_dum_conn_pitch = 0 => t[2] = t[1])

\* with every other track only, the dummy asked for at 1 goes to 2
C8_Witness ==
    /\ get_dum_conn_pitch = 2
    /\ <<1, 2>> \in tr.dum_tracks
    /\ tr.sub_wires

\* the half tracks a wire of the given width around htr covers
Covered(tid) == (tid.pos - tid.width)..(tid.pos + tid.width)

Apart(a, b) ==
    /\ a.pos # b.pos
    /\ Covered(a) \cap Covered(b) \subseteq {a.pos + a.width, a.pos - a.width}

\* C9: in a finished Transistor row the gate is on gate track
\* num_track_sep + 1, the source on gate track 0, the drain on drain/source
\* track nd_tracks // 2, which is one of 0..nd_tracks-1; the three tracks
\* are pairwise distinct and do not overlap.
C9_PinsOnDistinctTracks ==
    (tr.cls = "Transistor" /\ tr.pc = "done") =>
        LET p == tr.params
            pins == returned.pins
        IN  /\ pins.g.type = "g" /\ pins.g.htr = 2 * (p.num_track_sep + 1)
            /\ pins.s.type = "g" /\ pins.s.htr = 0
            /\ pins.d.type = "ds" /\ pins.d.htr = 2 * (p.nd_tracks \div 2)
            /\ p.nd_tracks \div 2 \in 0..(p.nd_tracks - 1)
            /\ Apart(pins.g, pins.s)
            /\ Apart(pins.g, pins.d)
            /\ Apart(pins.s, pins.d)

\* an nmos row of 4 fingers, 1 dummy a side, 2 gate tracks, 1 drain track
C9_Witness ==
    /\ tr.cls = "Transistor" /\ tr.pc = "done"
    /\ tr.params.mos_type = "nch" /\ ~ tr.params.draw_other
    /\ tr.params.fg = 4 /\ tr.params.fg_dum = 1
    /\ tr.params.num_track_sep = 0 /\ tr.params.nd_tracks = 1
    /\ returned.pins.g.pos # returned.pins.d.pos

----------------------------------------------------------------------------
(* Claims about the technology queries *)

Queries(fn) == {i \in DOMAIN qlog : qlog[i].fn = fn}

\* the entries a helper reads, in the order it reads them
EntriesRead(fn) ==
    IF fn = "get_sd_pitch" THEN <<"sd_pitch">>
    ELSE IF fn = "get_num_fingers_per_sd" THEN <<"num_sd_per_track">>
    ELSE IF fn = "get_dum_conn_track_info"
    THEN <<"sd_pitch", "dum_conn_w", "num_sd_per_track">>
    ELSE <<"sd_pitch", "mos_conn_w", "num_sd_per_track">>

Helpers ==
    {"get_sd_pitch", "get_num_fingers_per_sd", "get_dum_conn_track_info",
     "get_mos_conn_track_info"}

\* the technology's table has every entry the helper reads
HasEntries(fn) ==
    /\ tech_cls = "MOSTechImpl"
    /\ \A k \in 1..Len(EntriesRead(fn)) : EntriesRead(fn)[k] \in DOMAIN tech_table

\* C11: with the constants of get_mos_tech_constants(lch_unit),
\* get_mos_conn_track_info returns (sd_pitch * num_sd_per_track -
\* mos_conn_w, mos_conn_w) and get_dum_conn_track_info returns (sd_pitch *
\* num_sd_per_track - dum_conn_w, dum_conn_w); space and width add up to
\* sd_pitch * num_sd_per_track for both.
C11_ConnTrackInfo ==
    /\ \A i \in Queries("get_mos_conn_track_info") :
          HasEntries("get_mos_conn_track_info") =>
            /\ qlog[i].result =
                   Ok(<<tech_table.sd_pitch * tech_table.num_sd_per_track
                            - tech_table.mos_conn_w,
                        tech_table.mos_conn_w>>)
            /\ qlog[i].result.val[1] + qlog[i].result.val[2]
                   = tech_table.sd_pitch * tech_table.num_sd_per_track
    /\ \A i \in Queries("get_dum_conn_track_info") :
          HasEntries("get_dum_conn_track_info") =>
            /\ qlog[i].result =
                   Ok(<<tech_table.sd_pitch * tech_table.num_sd_per_track
                            - tech_table.dum_conn_w,
                        tech_table.dum_conn_w>>)
            /\ qlog[i].result.val[1] + qlog[i].result.val[2]
                   = tech_table.sd_pitch * tech_table.num_sd_per_track

\* sd_pitch 2, 2 junctions per track, dummy wires 1 wide: (3, 1); the
\* transistor wires of the same technology are 2 wide: (2, 2)
C11_Witness ==
    /\ Len(qlog) = 2
    /\ qlog[1].fn = "get_dum_conn_track_info"
    /\ qlog[1].result.tag = "ok"
    /\ qlog[1].result.val = <<3, 1>>
    /\ qlog[2].fn = "get_mos_conn_track_info"
    /\ qlog[2].result.tag = "ok"
    /\ qlog[2].result.val = <<2, 2>>

\* the first entry the query reads that the technology does not have
MissingEntry(q) ==
    IF q.fn = "get_tech_constant"
    THEN (IF q.args[1] \in DOMAIN get_mos_tech_constants(LchUnit)
          THEN None ELSE Ok(q.args[1]))
    ELSE LET names == EntriesRead(q.fn)
             missing == {k \in 1..Len(names) :
                            names[k] \notin DOMAIN get_mos_tech_constants(LchUnit)}
         IN  IF missing = {} THEN None
             ELSE Ok(names[CHOOSE k \in missing : \A m \in missing : k <= m])

\* C12, as stated: a query for a technology constant that the technology
\* table does not have (get_tech_constant, or a helper that reads a missing
\* entry) fails with UnknownTechnologyParameter and returns no value.
C12_MissingConstantRaisesUnknown ==
    \A i \in DOMAIN qlog :
        (qlog[i].fn \in Helpers \cup {"get_tech_constant"}
            /\ MissingEntry(qlog[i]) # None) =>
            qlog[i].result = Raise("UnknownTechnologyParameter",
                                   MissingEntry(qlog[i]).val)

EdgeWidthEntry(edge_info) ==
    IF "edge_width" \in DOMAIN edge_info THEN Ok(edge_info.edge_width)
    ELSE Raise("KeyError", "edge_width")

\* C20: get_left_sd_xc(grid, lch_unit, guard_ring_nf, top_layer, is_end) is
\* the 'edge_width' entry of get_edge_info called with the same five
\* arguments, for every combination of arguments.
C20_LeftSdXcIsEdgeWidth ==
    \A i \in Queries("get_left_sd_xc") :
        LET a == qlog[i].args
        IN  qlog[i].result =
                EdgeWidthEntry(get_edge_info("grid", a[1], a[2], a[3], a[4]))

\* a row with a guard ring and an abutting neighbour, whose edge is wider
\* than that of a row at the boundary
C20_Witness ==
    /\ tech_cls = "MOSTechImpl"
    /\ \E i \in Queries("get_left_sd_xc") :
          /\ qlog[i].args = <<LchUnit, 1, 5, FALSE>>
          /\ qlog[i].result.tag = "ok"
          /\ qlog[i].result.val
                 = ImplEdgeWidth("grid", LchUnit, 1, 5, FALSE)
          /\ qlog[i].result.val
                 > ImplEdgeWidth("grid", LchUnit, 1, 5, TRUE)

----------------------------------------------------------------------------
(* Claims about the primitive templates *)

----------------------------------------------------------------------------
(* Claims about the components at work *)

\* the block information the technology gives for the template's parameters
MosInfoOf(self) ==
    get_mos_info(LchUnit, self.params.w, self.params.mos_type,
                 self.params.threshold, get_analog_unit_fg)

HasAllEntries(mos_info) ==
    \A k \in 1..Len(MosInfoEntries) : MosInfoEntries[k] \in DOMAIN mos_info

\* what the getters return when each field is its entry of mos_info
EntriesOf(mos_info) ==
    [g_conn_y |-> Ok(mos_info.g_conn_y), d_conn_y |-> Ok(mos_info.d_conn_y),
     ext_top_info |-> Ok(mos_info.ext_top_info),
     ext_bot_info |-> Ok(mos_info.ext_bot_info),
     sd_yc |-> Ok(mos_info.sd_yc),
     edge_layout_info |-> Ok(mos_info.layout_info)]

AllNone ==
    [g_conn_y |-> None, d_conn_y |-> None, ext_top_info |-> None,
     ext_bot_info |-> None, sd_yc |-> None, edge_layout_info |-> None]

\* C17: before draw_layout every getter of AnalogMOSBase returns None; after
\* draw_layout each getter returns the corresponding entry of the
\* get_mos_info record, all six fields were set when draw_mos was called,
\* and calling the getters afterwards changes none of them.
C17_GettersHoldMosInfo ==
    /\ mos.pc = "created" => Getters(mos) = AllNone
    /\ mos.pc = "drawn" =>
          /\ ~IsExc(MosInfoOf(mos))
          /\ HasAllEntries(MosInfoOf(mos))
          /\ Getters(mos) = EntriesOf(MosInfoOf(mos))
          /\ mos.draw_mos_saw = EntriesOf(MosInfoOf(mos))
    /\ (mos.pc \in {"created", "drawn"} /\ mos.got # None) =>
          /\ mos.got.at = "created" => mos.got.val = AllNone
          /\ mos.got.at = "drawn" =>
                /\ mos.pc = "drawn"
                /\ mos.got.val = EntriesOf(MosInfoOf(mos))

\* a drawn template whose getters were read before and after draw_layout
C17_Witness ==
    /\ mos.pc = "drawn"
    /\ mos.got # None
    /\ mos.got.at = "drawn"
    /\ mos.got.val.g_conn_y # mos.got.val.d_conn_y
    /\ mos.got.val.sd_yc # None

\* the first corner in which candidate c raises, 0 when it raises in none
FirstExc(inp, c) ==
    IF \E e \in 1..Len(EnvList) : IsExc(solve_tail_bias(inp, c, e))
    THEN CHOOSE e \in 1..Len(EnvList) :
            /\ IsExc(solve_tail_bias(inp, c, e))
            /\ \A d \in 1..(e - 1) : ~IsExc(solve_tail_bias(inp, c, d))
    ELSE 0

\* candidate c raises something other than the ValueError of the solver
Breaks(inp, c) ==
    /\ FirstExc(inp, c) # 0
    /\ solve_tail_bias(inp, c, FirstExc(inp, c)).name # "ValueError"

\* candidate c has a bias in every corner and is fast enough
Qualifies(inp, c) ==
    /\ FirstExc(inp, c) = 0
    /\ \A e \in 1..Len(EnvList) : solve_tail_bias(inp, c, e).tau <= inp.tau_max

SameExc(a, b) ==
    /\ a.tag = b.tag
    /\ a.name = b.name
    /\ a.what = b.what

\* what design_tail owes its caller
TailPropagates(inp, result) ==
    LET cands == 1..Len(FgSwp)
    IN  IF \E c \in cands : Breaks(inp, c)
        THEN LET c0 == CHOOSE c \in cands :
                          Breaks(inp, c) /\ \A b \in 1..(c - 1) : ~Breaks(inp, b)
             IN  /\ IsExc(result)
                 /\ SameExc(result, solve_tail_bias(inp, c0, FirstExc(inp, c0)))
        ELSE IF \E c \in cands : Qualifies(inp, c)
        THEN /\ result.tag = "ok"
             /\ \E c \in cands :
                   /\ Qualifies(inp, c)
                   /\ result.val[1] = FgSwp[c]
                   /\ Len(result.val[2]) = Len(EnvList)
                   /\ Len(result.val[3]) = Len(EnvList)
                   /\ \A e \in 1..Len(EnvList) :
                         /\ result.val[2][e] = solve_tail_bias(inp, c, e).ro
                         /\ result.val[3][e] = vbias_of(c, e)
        ELSE /\ IsExc(result)
             /\ result.name = "ValueError"
             /\ result.what = "No solution for tail current source."

\* C18: an error raised beneath a template's draw_layout leaves it unchanged
\* and the template is not drawn; design_tail hands on every error but the
\* solver's ValueError, and on that one it gives up the whole candidate
\* and goes on with the next.
C18_ErrorsPropagate ==
    /\ mos.pc \in {"drawn", "raised"} =>
          /\ IsExc(MosInfoOf(mos)) =>
                /\ mos.pc = "raised"
                /\ SameExc(mos.exc, MosInfoOf(mos))
                /\ Getters(mos) = AllNone
          /\ (~IsExc(MosInfoOf(mos)) /\ ~HasAllEntries(MosInfoOf(mos))) =>
                /\ mos.pc = "raised"
                /\ mos.exc.tag = "exc"
                /\ mos.exc.name = "KeyError"
    /\ ext.pc \in {"drawn", "raised"} =>
          LET ext_info == get_ext_info(LchUnit, ext.w, "nch", "pch", "lvt",
                                       "lvt", ext.fg, ExtTopInfo, ExtBotInfo)
          IN  IsExc(ext_info) =>
                 /\ ext.pc = "raised"
                 /\ SameExc(ext.exc, ext_info)
    /\ sweep.pc = "done" => TailPropagates(sweep.inp, sweep.result)

\* both templates met an error of the technology
C18_Witness ==
    /\ mos.pc = "raised"
    /\ mos.exc.name = "UnknownTechnologyParameter"
    /\ ext.pc = "raised"
    /\ ext.exc.name = "IllegalExtensionHeight"

\* design_tail gave up the first candidate after one good corner and
\* returned the second
C18_SweepWitness ==
    /\ sweep.pc = "done"
    /\ ~IsExc(solve_tail_bias(sweep.inp, 1, 1))
    /\ FirstExc(sweep.inp, 1) = 2
    /\ sweep.result.tag = "ok"
    /\ sweep.result.val[1] = FgSwp[2]


\* the smallest output resistance of candidate c over the corners
RoWorst(inp, c) ==
    LET ros == {solve_tail_bias(inp, c, e).ro : e \in 1..Len(EnvList)}
    IN  CHOOSE r \in ros : \A q \in ros : r <= q

\* the candidate design_tail owes: the best of the qualifying ones, the
\* earliest of them when several are equally good
BestTail(inp) ==
    CHOOSE c \in 1..Len(FgSwp) :
        /\ Qualifies(inp, c)
        /\ \A b \in 1..Len(FgSwp) :
              Qualifies(inp, b) =>
                 \/ RoWorst(inp, b) < RoWorst(inp, c)
                 \/ RoWorst(inp, b) = RoWorst(inp, c) /\ c <= b

\* C27: when no call beneath it fails otherwise, design_tail returns the
\* qualifying candidate of fg_swp with the largest worst-case output
\* resistance, the earliest on ties, with one resistance and one bias voltage
\* per environment, all of that candidate; it raises ValueError exactly when
\* no candidate qualifies.
C27_TailOptimum ==
    (sweep.pc = "done" /\ \A c \in 1..Len(FgSwp) : ~Breaks(sweep.inp, c)) =>
        IF \E c \in 1..Len(FgSwp) : Qualifies(sweep.inp, c)
        THEN /\ sweep.result.tag = "ok"
             /\ sweep.result.val[1] = FgSwp[BestTail(sweep.inp)]
             /\ sweep.result.val[2] =
                   [e \in 1..Len(EnvList) |->
                       solve_tail_bias(sweep.inp, BestTail(sweep.inp), e).ro]
             /\ sweep.result.val[3] =
                   [e \in 1..Len(EnvList) |->
                       vbias_of(BestTail(sweep.inp), e)]
        ELSE /\ IsExc(sweep.result)
             /\ sweep.result.name = "ValueError"

\* two candidates qualify with the same worst resistance and the first is
\* returned, its resistances differing from the second's
C27_Witness ==
    /\ sweep.pc = "done"
    /\ Qualifies(sweep.inp, 1)
    /\ Qualifies(sweep.inp, 2)
    /\ RoWorst(sweep.inp, 1) = RoWorst(sweep.inp, 2)
    /\ solve_tail_bias(sweep.inp, 1, 1).ro # solve_tail_bias(sweep.inp, 2, 1).ro
    /\ sweep.result.tag = "ok"
    /\ sweep.result.val[1] = FgSwp[1]


----------------------------------------------------------------------------
(* Further claims about the extension widths *)

\* the legal heights up to top that are at least the imposed minimum
LegalAtLeast(L, min_w, top) ==
    {h \in 0..top : IsValidExtensionWidth(L, h) /\ h >= min_w}

\* C22: for the non-empty list L of valid widths and every imposed minimum
\* N >= 0, max(N, last(L)) is a legal height that is >= N, so the legal
\* heights that meet the minimum are never an empty set and the legalizer
\* always ends with one of them.
C22_LegalHeightExists ==
    leg.tag = "leg" =>
        /\ Len(leg.widths) >= 1
        /\ IsValidExtensionWidth(leg.widths,
                                 Max(leg.min_w, leg.widths[Len(leg.widths)]))
        /\ LegalAtLeast(leg.widths, leg.min_w,
                        Max(leg.min_w, leg.widths[Len(leg.widths)])) # {}
        /\ IsValidExtensionWidth(leg.widths, leg.w)
        /\ leg.w >= leg.min_w
        /\ ext.pc # "none"

\* a minimum above the last element of the list
C22_Witness ==
    /\ leg.tag = "leg"
    /\ leg.widths = <<0, 2, 5>>
    /\ leg.min_w = 6
    /\ leg.w >= 6
    /\ ext.pc = "drawn"


----------------------------------------------------------------------------
(* Further claims about the primitive templates *)

\* the positions of keyed that hold an AnalogMOSExt template
ExtKeyed == {i \in 1..Len(keyed) : keyed[i].template.cls = "AnalogMOSExt"}

\* the two templates differ in an interface tuple or in is_laygo
LayoutsDiffer(p, q) ==
    \/ p.top_ext_info # q.top_ext_info
    \/ p.bot_ext_info # q.bot_ext_info
    \/ p.is_laygo # q.is_laygo

\* C29: two AnalogMOSExt templates that differ in top_ext_info, in
\* bot_ext_info or in is_laygo never get the same key; the key holds the
\* layout basename, which starts with 'laygo_' exactly when is_laygo is
\* true, and both interface tuples by value.
C29_DifferentLayoutsDifferentKeys ==
    /\ \A i \in ExtKeyed :
          /\ (keyed[i].key.items[1][1] = "laygo_")
                <=> keyed[i].template.params.is_laygo
          /\ keyed[i].key.items[2] = keyed[i].template.params.top_ext_info
          /\ keyed[i].key.items[3] = keyed[i].template.params.bot_ext_info
    /\ \A i, j \in ExtKeyed :
          LayoutsDiffer(keyed[i].template.params, keyed[j].template.params)
             => keyed[i].key # keyed[j].key

\* two extensions that differ only in is_laygo, and got different keys
C29_Witness ==
    /\ Len(keyed) = 2
    /\ keyed[1].template.cls = "AnalogMOSExt"
    /\ keyed[2].template.cls = "AnalogMOSExt"
    /\ keyed[1].template.params.is_laygo
    /\ keyed[2].template.params =
          [keyed[1].template.params EXCEPT !.is_laygo = FALSE]
    /\ keyed[1].key # keyed[2].key


----------------------------------------------------------------------------
(* Further claims about row assembly *)

\* C28: Transistor.draw_layout and TransistorGD.draw_layout hand
\* draw_mos_conn (sdir, ddir) = (2, 0) when mos_type is 'pch' and (0, 2)
\* otherwise: exactly one of the two routes down (0), neither stays in the
\* middle (1), and the source routes toward the substrate row of its own
\* device type.
C28_SourceAndDrainOpposite ==
    tr.dirs # None =>
        LET sdir == tr.dirs.val[1]
            ddir == tr.dirs.val[2]
        IN  /\ tr.params.mos_type = "pch" => (sdir = 2 /\ ddir = 0)
            /\ tr.params.mos_type # "pch" => (sdir = 0 /\ ddir = 2)
            /\ (sdir = 0) # (ddir = 0)
            /\ sdir # 1 /\ ddir # 1
            /\ sdir = SubstrateDir(
                          TransistorGD_source_substrate(tr.params.mos_type))

\* a finished pmos TransistorGD whose source went up to the ntap row
C28_Witness ==
    /\ tr.cls = "TransistorGD"
    /\ tr.params.mos_type = "pch"
    /\ tr.pc = "done"
    /\ tr.dirs = Ok(<<2, 0>>)


----------------------------------------------------------------------------
(* Claims about the transistor connections *)

\* the two calls differ in gate_pref_loc and in nothing else
SameButPrefLoc(p, q) ==
    /\ p.args[1] = q.args[1]
    /\ p.args[2] = q.args[2]
    /\ p.args[3] # q.args[3]
    /\ p.args[4] = q.args[4]

\* C21: whenever the source or the drain routes down (sdir = 0 or ddir = 0),
\* draw_mos_connection gives the same result for both values of
\* gate_pref_loc.
C21_PrefLocOnlyWhenNoneDown ==
    \A i, j \in 1..Len(qlog) :
        (/\ qlog[i].fn = "draw_mos_connection"
         /\ qlog[j].fn = "draw_mos_connection"
         /\ SameButPrefLoc(qlog[i], qlog[j])
         /\ (qlog[i].args[1] = 0 \/ qlog[i].args[2] = 0))
            => qlog[i].result = qlog[j].result

\* the overriding technology, the drain down, both preferences, one result
C21_Witness ==
    /\ tech_cls = "MOSTechImpl"
    /\ Len(qlog) = 2
    /\ qlog[1].args = <<2, 0, "s", FALSE>>
    /\ qlog[2].args = <<2, 0, "d", FALSE>>
    /\ qlog[1].result = qlog[2].result
    /\ qlog[1].result.g = "s"

\* neither terminal down: the preference shows in the result
C21_PrefLocMatters ==
    /\ tech_cls = "MOSTechImpl"
    /\ Len(qlog) = 2
    /\ qlog[1].args = <<2, 2, "s", FALSE>>
    /\ qlog[2].args = <<2, 2, "d", FALSE>>
    /\ qlog[1].result # qlog[2].result


----------------------------------------------------------------------------
(* Claims about StackDriver *)

\* the primitives placed in a row at a column
PlacedAt(self, row, col) ==
    {i \in 1..Len(self.placed) :
        self.placed[i].row = row /\ self.placed[i].col = col}

\* the variant placed in a row at a column holding one primitive
VariantAt(self, row, col) ==
    self.placed[CHOOSE i \in PlacedAt(self, row, col) : TRUE].blk

TotBlk(self) == 2 * self.params.num_dblk + self.params.num_blk

\* the nmos row (1) and the pmos row (2) hold one primitive in every column,
\* 'sl' and 'sr' alternate along each row, and the rows are opposite
RowsCovered(self) ==
    /\ \A row \in {1, 2}, col \in 0..(TotBlk(self) - 1) :
          Cardinality(PlacedAt(self, row, col)) = 1
    /\ \A row \in {1, 2}, col \in 0..(TotBlk(self) - 2) :
          VariantAt(self, row, col) # VariantAt(self, row, col + 1)
    /\ \A col \in 0..(TotBlk(self) - 1) :
          VariantAt(self, 1, col) # VariantAt(self, 2, col)

\* C30: for every num_blk >= 2 and num_dblk >= 0 the primitives of the nmos
\* row and of the pmos row occupy every column 0..tot_blk-1 exactly once,
\* 'sl' and 'sr' alternating from column to column and the two rows opposite
\* in every column; when fg2d_s_short is false draw_layout raises ValueError
\* before any row type is set or primitive placed.
C30_RowsCoverEveryColumn ==
    /\ stack.pc = "drawn" => RowsCovered(stack)
    /\ (stack.pc \in {"drawn", "raised"} /\ ~stack.fg2d_s_short) =>
          /\ stack.pc = "raised"
          /\ stack.exc.name = "ValueError"
          /\ stack.row_types = None
          /\ stack.placed = <<>>

\* what holds of the code: the rows are covered when tot_blk is even
EvenTotBlkCovered ==
    /\ (stack.pc = "drawn" /\ TotBlk(stack) % 2 = 0) => RowsCovered(stack)
    /\ (stack.pc = "drawn" /\ TotBlk(stack) % 2 = 1) =>
          PlacedAt(stack, 1, TotBlk(stack) - 2) = {}
    /\ (stack.pc \in {"drawn", "raised"} /\ ~stack.fg2d_s_short) =>
          /\ stack.pc = "raised"
          /\ stack.row_types = None
          /\ stack.placed = <<>>


----------------------------------------------------------------------------
(* Claims about characterize_casc_amp *)

\* an environment's search has just ended
Searched == amp.pc \in {"envs", "returned", "raised"} /\ amp.search.trials # <<>>

\* the search ended by appending a scale
Appended == Searched /\ amp.search.exc = None

\* C23: every scale characterize_casc_amp returns lies in
\* [scale_min, scale_max] and met k_settle_targ when it was tried, and
\* whenever no scale in that interval meets the target the function raises
\* ValueError instead of returning a scale.
C23_ScaleWithinBounds ==
    /\ \A i \in 1..Len(amp.scale_list) :
          /\ amp.scale_list[i] >= ScaleMin
          /\ amp.scale_list[i] <= amp.scale_max
    /\ Appended =>
          \E t \in 1..Len(amp.search.trials) :
             /\ amp.search.trials[t].scale = amp.scale_list[Len(amp.scale_list)]
             /\ amp.search.trials[t].met
    /\ (Searched /\ amp.meets \cap (ScaleMin..amp.scale_max) = {}) =>
          /\ amp.pc = "raised"
          /\ amp.result.name = "ValueError"

\* what holds of the code: a returned scale met the target when it was
\* tried and is at most one step of the search above scale_max
ScaleNearBounds ==
    /\ \A i \in 1..Len(amp.scale_list) :
          /\ amp.scale_list[i] >= ScaleMin
          /\ amp.scale_list[i] <= amp.scale_max + ScaleRes
    /\ Appended =>
          \E t \in 1..Len(amp.search.trials) :
             /\ amp.search.trials[t].scale = amp.scale_list[Len(amp.scale_list)]
             /\ amp.search.trials[t].met

\* C24: every completed iteration of the scale search removes the wire
\* parasitics it added: at the start of every iteration, and when the search
\* of an environment ends with a scale, the circuit holds the three
\* transistors and the fanout load and nothing else, and every trial saw
\* the wire of its own scale only.
C24_ParasiticsRemoved ==
    /\ Searched =>
          \A t \in 1..Len(amp.search.trials) :
             /\ amp.search.trials[t].before = HalfCircuit
             /\ amp.search.trials[t].met
                   <=> amp.search.trials[t].scale \in amp.meets
    /\ Appended => amp.search.circuit = HalfCircuit

\* a search of three trials, two failed and the third met, that ended with
\* a scale and a clean circuit
C24_Witness ==
    /\ Appended
    /\ Len(amp.search.trials) = 3
    /\ ~amp.search.trials[1].met
    /\ ~amp.search.trials[2].met
    /\ amp.search.trials[3].met
    /\ amp.search.circuit = HalfCircuit
    /\ amp.pc = "returned"


----------------------------------------------------------------------------
(* Claims about the design sweep *)

LoadStages == {"load", "amp", "passed"}

\* the lines of the log about a fg_casc candidate
LinesOf(fg_casc) ==
    SelectSeq(design.log, LAMBDA line : line.fg_casc = fg_casc)

PassedLines == {i \in 1..Len(design.log) : design.log[i].stage = "passed"}

WorstOf(i) == ListMax(design.log[i].ibias_list)

C26_LoadSeesSameBias ==
    \A i, j \in 1..Len(design.log) :
        (/\ design.log[i].fg_casc = design.log[j].fg_casc
         /\ design.log[i].stage \in LoadStages
         /\ design.log[j].stage \in LoadStages)
            => design.log[i].given = design.log[j].given

\* what holds of the code: a later load is given the currents of the one
\* before it, multiplied by that one's scale when it passed
BiasCarriedOver ==
    \A i \in 1..(Len(design.log) - 1) :
        (/\ design.log[i].fg_casc = design.log[i + 1].fg_casc
         /\ design.log[i].stage \in LoadStages)
            => design.log[i + 1].given =
                  IF design.log[i].stage = "passed"
                  THEN design.log[i].ibias_list
                  ELSE design.log[i].given

====
